---- MODULE Spec2Model ----
(***************************************************************************)
(* Question-to-insight pipeline of chat_with_db: the SQL completeness      *)
(* check, the SQL security validator, the SQL executor and the             *)
(* orchestrator ChatService.handle_question.                               *)
(*                                                                         *)
(* Text is modelled as a sequence of words separated by single blanks.     *)
(* A word is cut into upper-cased pieces (Pieces) so that Python's         *)
(* substring operations ("FROM" in s, s.find, s.startswith, re.search)     *)
(* are computed on the piece stream exactly as on the characters.          *)
(***************************************************************************)
EXTENDS Integers, Sequences, FiniteSets, TLC

VARIABLES
    pc,          \* position of handle_question
    cfg,         \* [llm, gemini, viz] availability fixed at construction
    question,    \* the request's question
    qUse,        \* question_to_use
    isDb,        \* is_database_related
    intent,      \* detected intent type
    sqlQuery,    \* sql_query returned by SQLGenerationChain.generate
    data,        \* rows returned by the executor
    stats,       \* statistical_analysis
    steps,       \* metadata["steps"]
    log,         \* trace of what the stages did (history)
    outcome,     \* the dict handle_question returns
    schemaCache, \* SchemaStore._schema_cache
    fnIn,        \* argument of the function under check
    fnOut        \* its result

vars == <<pc, cfg, question, qUse, isDb, intent, sqlQuery, data, stats,
          steps, log, outcome, schemaCache, fnIn, fnOut>>

\* Python's None where a text is expected: the empty text.
None == <<>>

\* ------------------------------------------------------------------ bounds
MaxSqlLen == 4
MaxMid == 2

\* ------------------------------------------------------ program constants
SQL_MAX_ROWS == 1000

SQL_ALLOWED_OPERATIONS == {"SELECT"}

blocked_keywords ==
    {"DELETE", "DROP", "TRUNCATE", "ALTER", "CREATE", "INSERT", "UPDATE",
     "GRANT", "REVOKE", "EXEC", "EXECUTE", "CALL", "MERGE", "COPY"}

\* -------------------------------------------------------------- text model
RECURSIVE SeqsUpTo(_, _)
SeqsUpTo(S, n) ==
    IF n = 0 THEN {<<>>}
    ELSE LET shorter == SeqsUpTo(S, n - 1)
         IN  shorter \cup {Append(s, w) : s \in {x \in shorter : Len(x) = n - 1}, w \in S}

\* str.upper() of one word, cut at the keyword boundaries it contains.
Pieces(w) ==
    CASE w = "select"  -> <<"SELECT">>
      [] w = "from"    -> <<"FROM">>
      [] w = "limit"   -> <<"LIMIT">>
      [] w = "t"       -> <<"T">>
      [] w = "from_x"  -> <<"FROM", "_X">>
      [] w = "limited" -> <<"LIMIT", "ED">>
      [] OTHER         -> <<w>>

\* str.upper() of one word as a single value.
UpperWord(w) ==
    CASE w = "select"  -> "SELECT"
      [] w = "from"    -> "FROM"
      [] w = "limit"   -> "LIMIT"
      [] w = "t"       -> "T"
      [] w = "from_x"  -> "FROM_X"
      [] w = "limited" -> "LIMITED"
      [] OTHER         -> w

\* sql.upper().strip() as a stream of pieces; " " stands for a run of blanks.
RECURSIVE PieceSeq(_)
PieceSeq(s) ==
    IF s = <<>> THEN <<>>
    ELSE IF Len(s) = 1 THEN Pieces(s[1])
    ELSE Pieces(s[1]) \o <<" ">> \o PieceSeq(Tail(s))

\* "K" in text
HasPiece(ps, k) == \E i \in 1..Len(ps) : ps[i] = k

\* text.find("K"): index of the first occurrence (0 when absent)
FindPiece(ps, k) ==
    IF HasPiece(ps, k)
    THEN CHOOSE i \in 1..Len(ps) : ps[i] = k /\ \A j \in 1..(i - 1) : ps[j] # k
    ELSE 0

\* text.strip() on the left of a piece stream
RECURSIVE LStrip(_)
LStrip(ps) ==
    IF ps # <<>> /\ ps[1] = " " THEN LStrip(Tail(ps)) ELSE ps

\* text.startswith("K")
StartsWith(ps, k) == ps # <<>> /\ ps[1] = k

\* re.search(r'FROM\s+LIMIT', text)
HasFromLimit(ps) ==
    \E i \in 1..Len(ps) :
        /\ i + 2 <= Len(ps)
        /\ ps[i] = "FROM" /\ ps[i + 1] = " " /\ ps[i + 2] = "LIMIT"

\* ---------------------------------------- SQLGenerationChain (chains.py)
\* A faulty completeness check: nothing is asked of what follows FROM.
validate_sql_completeness_lax(sql) ==
    LET sql_upper == PieceSeq(sql)
    IN  IF ~StartsWith(sql_upper, "SELECT")
        THEN <<"Query must start with SELECT">>
        ELSE IF ~HasPiece(sql_upper, "FROM")
        THEN <<"Query missing FROM clause">>
        ELSE None

\* _validate_sql_completeness: None when complete, else the reason.
validate_sql_completeness(sql) ==
    LET sql_upper  == PieceSeq(sql)
        from_index == FindPiece(sql_upper, "FROM")
        after_from == LStrip(SubSeq(sql_upper, from_index + 1, Len(sql_upper)))
    IN  IF ~StartsWith(sql_upper, "SELECT")
        THEN <<"Query must start with SELECT">>
        ELSE IF ~HasPiece(sql_upper, "FROM")
        THEN <<"Query missing FROM clause">>
        ELSE IF after_from = <<>> \/ StartsWith(after_from, "LIMIT")
        THEN <<"Query missing table name after FROM clause">>
        ELSE IF HasFromLimit(sql_upper)
        THEN <<"Query has LIMIT immediately after FROM - missing table name or JOIN clause">>
        ELSE None

\* ------------------------------------------- sqlparse as used by security.py
\* Token type the sqlparse lexer gives a word.
Lex(w) ==
    LET u == UpperWord(w)
    IN  CASE u \in {"SELECT", "DELETE", "INSERT", "UPDATE", "MERGE"} -> "DML"
          [] u \in {"DROP", "CREATE", "ALTER"}                       -> "DDL"
          [] u \in {"FROM", "LIMIT", "WHERE", "CALL", "GRANT", "REVOKE",
                    "EXEC", "EXECUTE", "TRUNCATE", "COPY"}           -> "Keyword"
          [] u \in {"(", ")", ";"}                                   -> "Punctuation"
          [] u = "*"                                                 -> "Wildcard"
          [] u \in {"10", ToString(SQL_MAX_ROWS)}                                 -> "Number"
          [] OTHER                                                   -> "Name"

\* Nesting depth after the first n words of s; a ")" with no open "(" is left
\* alone.
RECURSIVE DepthAt(_, _)
DepthAt(s, n) ==
    IF n = 0 THEN 0
    ELSE LET d == DepthAt(s, n - 1)
         IN  IF s[n] = "(" THEN d + 1
             ELSE IF s[n] = ")" THEN (IF d > 0 THEN d - 1 ELSE 0)
             ELSE d

\* Nesting depth after reading s
DepthAfter(s) == DepthAt(s, Len(s))

\* sqlparse.parse(sql)[0]: the first statement, up to its ";" outside parentheses.
FirstStatement(sql) ==
    LET ends == {i \in 1..Len(sql) : sql[i] = ";" /\ DepthAfter(SubSeq(sql, 1, i)) = 0}
    IN  IF ends = {} THEN sql
        ELSE SubSeq(sql, 1, CHOOSE i \in ends : \A j \in ends : i <= j)

\* "(" at position a is closed by a ")" further on (sqlparse groups the span).
Closed(st, a) ==
    \E b \in (a + 1)..Len(st) :
        /\ st[b] = ")"
        /\ DepthAfter(SubSeq(st, a + 1, b - 1)) = 0
        /\ \A c \in (a + 1)..(b - 1) :
               st[c] = ")" => DepthAfter(SubSeq(st, a + 1, c - 1)) > 0

\* Position i lies inside a grouped parenthesis, so it is no element of
\* statement.tokens.
Nested(st, i) ==
    \E a \in 1..(i - 1) :
        /\ st[a] = "("
        /\ Closed(st, a)
        /\ \A c \in (a + 1)..(i - 1) :
               st[c] = ")" => DepthAfter(SubSeq(st, a + 1, c - 1)) > 0

\* statement.tokens: the positions of the leaf tokens at the top level.
TopTokens(st) == {i \in 1..Len(st) : ~Nested(st, i)}

\* ------------------------------------ SQLSecurityValidator (security.py)
\* What the loop over statement.tokens decides at token i (None: nothing).
TokenVerdict(w) ==
    IF Lex(w) = "DML" /\ UpperWord(w) \notin SQL_ALLOWED_OPERATIONS
    THEN <<"Operation '", UpperWord(w), "' is not allowed. Only SELECT queries are permitted.">>
    ELSE IF Lex(w) = "Keyword" /\ UpperWord(w) \in blocked_keywords
    THEN <<"Keyword '", UpperWord(w), "' is not allowed for security reasons.">>
    ELSE None

\* A faulty _is_select_only: a statement without any DML token passes.
is_select_only_lenient(st) ==
    \A i \in TopTokens(st) : Lex(st[i]) = "DML" => UpperWord(st[i]) = "SELECT"

is_select_only(st) ==
    LET dml == {i \in TopTokens(st) : Lex(st[i]) = "DML"}
    IN  IF dml = {} THEN FALSE
        ELSE UpperWord(st[CHOOSE i \in dml : \A j \in dml : i <= j]) = "SELECT"

has_limit(sql) == HasPiece(PieceSeq(sql), "LIMIT")

\* validate(sql) -> <<is_valid, error>>
validate(sql) ==
    IF sql = <<>> THEN <<FALSE, <<"Empty SQL query">> >>
    ELSE LET st  == FirstStatement(sql)
             bad == {i \in TopTokens(st) : TokenVerdict(st[i]) # None}
         IN  IF bad # {}
             THEN <<FALSE, TokenVerdict(st[CHOOSE i \in bad : \A j \in bad : i <= j])>>
             ELSE IF ~is_select_only(st)
             THEN <<FALSE, <<"Only SELECT statements are allowed">> >>
             ELSE <<TRUE, None>>

\* A faulty sanitize: LIMIT is appended whatever the text holds.
sanitize_always_appending(sql) ==
    LET s == IF sql # <<>> /\ sql[Len(sql)] = ";" THEN SubSeq(sql, 1, Len(sql) - 1) ELSE sql
    IN  s \o <<"LIMIT", ToString(SQL_MAX_ROWS)>>

\* sanitize(sql): rstrip(";") then append LIMIT when none is present
sanitize(sql) ==
    LET s == IF sql # <<>> /\ sql[Len(sql)] = ";" THEN SubSeq(sql, 1, Len(sql) - 1) ELSE sql
    IN  IF ~has_limit(s) THEN s \o <<"LIMIT", ToString(SQL_MAX_ROWS)>> ELSE s


\* =================================================== the pipeline's inputs
\* A question is known by what the code reads of it: its letters by script
\* (_is_arabic), the keywords it contains (chart and analysis keyword lists)
\* and the intent categories whose patterns match it.
\*   "rasm" stands for the Arabic keyword of the visualization lists that is
\*   absent from chart_keywords; "top" for "top" / its Arabic counterpart.
Questions ==
    { [ar |-> 0, lat |-> 9, terms |-> {},                cats |-> {"list"}],
      [ar |-> 0, lat |-> 9, terms |-> {"chart", "top"},  cats |-> {"aggregate", "list"}],
      [ar |-> 8, lat |-> 2, terms |-> {"rasm"},          cats |-> {"trend"}],
      [ar |-> 0, lat |-> 9, terms |-> {"analysis"},      cats |-> {"correlation", "aggregate"}],
      [ar |-> 2, lat |-> 8, terms |-> {"diagram"},       cats |-> {"comparison"}],
      [ar |-> 0, lat |-> 0, terms |-> {},                cats |-> {}] }

\* What the refinement model may answer with (cleaned): a question, or no text.
RefinedQuestion == [ar |-> 0, lat |-> 9, terms |-> {}, cats |-> {"trend", "list"}]

NoQuestion == [ar |-> 0, lat |-> 0, terms |-> {"<none>"}, cats |-> {}]

\* str(e) of an exception raised by a collaborator
ExcLlm == <<"exc: model call failed">>
ExcDb == <<"exc: connection refused">>
ExcDbIncomplete == <<"exc: incomplete input">>
ExcInternal == <<"exc: internal">>

\* Technical fragments: exception messages and the stages' own error strings.
TechnicalFragments ==
    { "exc: model call failed", "exc: connection refused", "exc: incomplete input",
      "exc: internal",
      "Failed to extract SQL from LLM response", "Generated SQL is incomplete: ",
      "Query must start with SELECT", "Query missing FROM clause",
      "Query missing table name after FROM clause",
      "Query has LIMIT immediately after FROM - missing table name or JOIN clause",
      "Empty SQL query", "Only SELECT statements are allowed",
      "Operation '", "Keyword '", "Gemini client is not available",
      "Classification failed, defaulting to database: ",
      "Refinement failed, using original: " }

HasTechnical(text) == \E i \in 1..Len(text) : text[i] \in TechnicalFragments

\* Result rows are known by their shape: row count, numeric and text columns.
NoData == [present |-> FALSE, rows |-> 0, num |-> 0, txt |-> 0]

DataShapes ==
    { [present |-> TRUE, rows |-> 0, num |-> 0, txt |-> 0],
      [present |-> TRUE, rows |-> 1, num |-> 1, txt |-> 1],
      [present |-> TRUE, rows |-> 3, num |-> 2, txt |-> 0],
      [present |-> TRUE, rows |-> 3, num |-> 0, txt |-> 1] }

NoStats ==
    [has_analysis |-> FALSE, analysis_type |-> "unset", interpretation |-> None,
     visualization_type |-> "unset"]

NoOutcome ==
    [kind |-> "none", success |-> FALSE, answer |-> None, error |-> None,
     sql_query |-> None, data |-> NoData, needs_visualization |-> FALSE,
     visualization_type |-> "none", is_database_related |-> TRUE, chart |-> FALSE]

\* ------------------------------------------------ error_messages.py
\* _is_arabic: more than 30% of the letters are Arabic
is_arabic(q) ==
    IF q.ar + q.lat = 0 THEN FALSE ELSE 10 * q.ar > 3 * (q.ar + q.lat)

\* get_professional_error_message: a fixed text per error type and language;
\* technical_error is not used.
get_professional_error_message(q, error_type, technical_error) ==
    LET lang == IF is_arabic(q) THEN "ar" ELSE "en"
        text == CASE error_type = "sql_generation" -> "msg: cannot answer at the moment"
                  [] error_type \in {"sql_execution", "incomplete_query"} -> "msg: cannot answer"
                  [] error_type = "no_data" -> "msg: no data found"
                  [] error_type = "general_error" -> "msg: an error occurred"
                  [] OTHER -> "msg: cannot answer, rephrase"
    IN  <<text, lang>>

\* ------------------------------------------------ question_classifier.py
\* Words of the classification model's answer.
ClassifierWords == {"database", "db", "general", "conceptual", "yes", "classification:"}

ClassifierReplies == SeqsUpTo(ClassifierWords, 2)

database_indicators == {"database", "db", "data query", "query data", "retrieve data", "requires database"}
general_indicators == {"general", "concept", "explain", "theory", "definition", "conceptual"}

\* indicator in word (substring test)
InWord(ind, w) == ind = w \/ (ind = "concept" /\ w = "conceptual")

\* .replace("classification:", "") and the split into words
CleanReply(r) == SelectSeq(r, LAMBDA w : w # "classification:")

Matches(inds, r) == Cardinality({ind \in inds : \E i \in 1..Len(r) : InWord(ind, r[i])})

\* A faulty classify: every failure defaults to "general".
classify_default_general(available, raised, reply) ==
    IF ~available \/ raised THEN <<TRUE, FALSE, None>>
    ELSE LET r == CleanReply(reply)
         IN  <<TRUE, Matches(database_indicators, r) > Matches(general_indicators, r), None>>

\* classify -> <<success, is_database_related, error>>; reply = <<>> x "raise"
classify(available, raised, reply) ==
    IF ~available THEN <<TRUE, TRUE, None>>
    ELSE IF raised
    THEN <<TRUE, TRUE, <<"Classification failed, defaulting to database: ">> \o ExcLlm>>
    ELSE LET r           == CleanReply(reply)
             db_matches  == Matches(database_indicators, r)
             gen_matches == Matches(general_indicators, r)
             first_word  == IF r = <<>> THEN "" ELSE r[1]
         IN  IF db_matches > gen_matches THEN <<TRUE, TRUE, None>>
             ELSE IF gen_matches > db_matches THEN <<TRUE, FALSE, None>>
             ELSE IF first_word \in {"database", "db"} THEN <<TRUE, TRUE, None>>
             ELSE IF first_word = "general" THEN <<TRUE, FALSE, None>>
             ELSE <<TRUE, TRUE, None>>

\* ------------------------------------------------ general_question_handler.py
\* handle -> <<success, answer, error>>
handle(available, raised) ==
    IF ~available THEN <<FALSE, None, <<"Gemini client is not available">> >>
    ELSE IF raised THEN <<FALSE, None, ExcLlm>>
    ELSE <<TRUE, <<"llm: general answer">>, None>>

\* ------------------------------------------------ question_refiner.py
\* A faulty refine: the model's text is returned even when the call failed.
refine_ignoring_failure(available, original_question, raised, reply) ==
    <<TRUE, reply, None>>

\* refine -> <<success, refined_question, error>>
refine(available, original_question, raised, reply) ==
    IF ~available THEN <<TRUE, original_question, None>>
    ELSE IF raised
    THEN <<TRUE, original_question, <<"Refinement failed, using original: ">> \o ExcLlm>>
    ELSE <<TRUE, reply, None>>

\* ------------------------------------------------ query_intent.py
\* A faulty _detect_intent_type: the aggregate patterns are tried first.
detect_intent_type_aggregate_first(q) ==
    IF "aggregate" \in q.cats THEN "aggregate"
    ELSE IF "correlation" \in q.cats THEN "correlation"
    ELSE IF "trend" \in q.cats THEN "trend"
    ELSE IF "comparison" \in q.cats THEN "comparison"
    ELSE IF "list" \in q.cats THEN "list"
    ELSE "unknown"

\* _detect_intent_type: the first category, in the fixed order, with a match
detect_intent_type(q) ==
    IF "correlation" \in q.cats THEN "correlation"
    ELSE IF "trend" \in q.cats THEN "trend"
    ELSE IF "comparison" \in q.cats THEN "comparison"
    ELSE IF "aggregate" \in q.cats THEN "aggregate"
    ELSE IF "list" \in q.cats THEN "list"
    ELSE "unknown"

\* Each of the five pattern lists holds three patterns.
PatternsPerCategory == 3

Categories == {"list", "aggregate", "comparison", "trend", "correlation"}

\* _calculate_confidence, in tenths: 0.3 for unknown, else by the number of
\* patterns of the detected category that match (pattern_counts).
calculate_confidence(intent_type, pattern_counts) ==
    IF intent_type = "unknown" THEN 3
    ELSE LET matches == pattern_counts[intent_type]
         IN  IF matches >= 2 THEN 9 ELSE IF matches = 1 THEN 7 ELSE 5

\* detect, on the number of matching patterns of each category: the type and
\* the confidence of the returned dict.
detect(pattern_counts) ==
    LET q == [cats |-> {c \in Categories : pattern_counts[c] >= 1}]
        intent_type == detect_intent_type(q)
    IN  [type |-> intent_type,
         confidence |-> calculate_confidence(intent_type, pattern_counts),
         analysis_required |-> intent_type \in {"correlation", "comparison", "trend", "aggregate"}]


\* One entry of the trace: what was called, on what, with what result.
Ev(e, a, r) == [ev |-> e, arg |-> a, res |-> r]

\* ------------------------------------------------ chains.py: generate
\* re.sub of the markdown blocks: a fence and everything up to the next fence
\* are removed; the word "~~~" stands for the three-backquote fence.
RECURSIVE RemoveFences(_)
RemoveFences(text) ==
    LET opens == {i \in 1..Len(text) : text[i] = "~~~"}
    IN  IF Cardinality(opens) < 2 THEN text
        ELSE LET a == CHOOSE i \in opens : \A j \in opens : i <= j
                 b == CHOOSE i \in opens \ {a} : \A j \in opens \ {a} : i <= j
             IN  SubSeq(text, 1, a - 1) \o RemoveFences(SubSeq(text, b + 1, Len(text)))

IsDigits(w) == w \in {"10", ToString(SQL_MAX_ROWS)}

\* re.search(r"(SELECT\s.+?\sLIMIT\s+\d+)", text, IGNORECASE | DOTALL) with the
\* whitespace collapsed: from the first SELECT to the nearest LIMIT <n> that
\* leaves at least one word in between. None when there is no such span.
extract_sql(reply) ==
    LET text   == RemoveFences(reply)
        spans  == {<<i, j>> \in (1..Len(text)) \X (1..Len(text)) :
                      /\ UpperWord(text[i]) = "SELECT"
                      /\ j >= i + 2 /\ j + 1 <= Len(text)
                      /\ UpperWord(text[j]) = "LIMIT"
                      /\ IsDigits(text[j + 1])}
    IN  IF spans = {} THEN None
        ELSE LET i == CHOOSE x \in {sp[1] : sp \in spans} :
                          \A y \in {sp[1] : sp \in spans} : x <= y
                 j == CHOOSE x \in {sp[2] : sp \in {t \in spans : t[1] = i}} :
                          \A y \in {sp[2] : sp \in {t \in spans : t[1] = i}} : x <= y
             IN  SubSeq(text, i, j + 1)

\* generate -> [success, sql, error] and the trace of its checks
generate(raised, reply) ==
    IF raised
    THEN [success |-> FALSE, sql |-> None, error |-> ExcLlm, events |-> <<>>]
    ELSE LET sql == extract_sql(reply)
             validation_error == validate_sql_completeness(sql)
         IN  IF sql = None
             THEN [success |-> FALSE, sql |-> None,
                   error |-> <<"Failed to extract SQL from LLM response">>,
                   events |-> <<>>]
             ELSE IF validation_error # None
             THEN [success |-> FALSE, sql |-> None,
                   error |-> <<"Generated SQL is incomplete: ">> \o validation_error,
                   events |-> <<Ev("complete_fail", sql, validation_error)>>]
             ELSE [success |-> TRUE, sql |-> sql, error |-> None,
                   events |-> <<Ev("complete_ok", sql, None)>>]

\* ------------------------------------------------ executor.py: execute
\* A faulty execute: the statement is sent to the database whatever validate says.
execute_unvalidated(sql, origin, db) ==
    LET safe_sql == sanitize(sql)
        called   == <<Ev("validate_ok", sql, None), Ev("sanitize", sql, safe_sql),
                      Ev("db_execute", safe_sql, <<origin>>)>>
    IN  IF db.raised
        THEN [success |-> FALSE, data |-> NoData, error |-> db.error, events |-> called]
        ELSE [success |-> TRUE, data |-> db.rows, error |-> None, events |-> called]

\* db = [raised, error, rows]: what the database session does with the text.
execute(sql, origin, db) ==
    LET v        == validate(sql)
        safe_sql == sanitize(sql)
        called   == <<Ev("validate_ok", sql, None), Ev("sanitize", sql, safe_sql),
                      Ev("db_execute", safe_sql, <<origin>>)>>
    IN  IF ~v[1]
        THEN [success |-> FALSE, data |-> NoData, error |-> v[2],
              events |-> <<Ev("validate_fail", sql, v[2])>>]
        ELSE IF db.raised
        THEN [success |-> FALSE, data |-> NoData, error |-> db.error, events |-> called]
        ELSE [success |-> TRUE, data |-> db.rows, error |-> None, events |-> called]

\* The database session's possible answers to one statement.
DbAnswers ==
    {[raised |-> FALSE, error |-> None, rows |-> d] : d \in DataShapes}
    \cup {[raised |-> TRUE, error |-> e, rows |-> NoData] : e \in {ExcDb, ExcDbIncomplete}}

\* "incomplete" in str(exec_error).lower()
MentionsIncomplete(text) ==
    \E i \in 1..Len(text) : text[i] \in {"exc: incomplete input", "Generated SQL is incomplete: "}

\* ------------------------------------------------ statistical_analysis.py
Finding(has, type, interp, viz) ==
    [has_analysis |-> has, analysis_type |-> type, interpretation |-> interp,
     visualization_type |-> viz]

\* What the pandas calls of one analysis may do: work, fail while the rows are
\* converted to a DataFrame, or fail inside the computation.
AnalysisFaults == {"none", "convert", "compute"}

\* An exception leaving a function
Raised(e) == [raised |-> e]

\* The text of an except clause: a fixed prefix and str(e)
FailureText(prefix) == <<prefix>> \o ExcInternal

\* _suggest_visualization
suggest_visualization(intent_type, d) ==
    IF intent_type = "correlation" /\ d.num >= 2 THEN "scatter"
    ELSE IF intent_type = "comparison" THEN (IF d.num > 0 THEN "bar" ELSE "table")
    ELSE IF intent_type = "trend" THEN "line"
    ELSE IF intent_type = "aggregate" THEN (IF d.num > 0 THEN "bar" ELSE "table")
    ELSE "table"

\* _analyze_correlation
analyze_correlation(d, fault) ==
    IF d.num < 2
    THEN Finding(FALSE, "correlation", <<"stat: not enough numeric columns">>, "scatter")
    ELSE IF fault = "compute"
    THEN Finding(FALSE, "correlation", FailureText("stat: correlation failed: "), "scatter")
    ELSE IF d.rows < 3
    THEN Finding(FALSE, "correlation", <<"stat: not enough rows">>, "scatter")
    ELSE Finding(TRUE, "correlation", <<"stat: correlation">>, "scatter")

\* _analyze_comparison
analyze_comparison(d, fault) ==
    IF d.num = 0
    THEN Finding(FALSE, "comparison", <<"stat: no numeric columns">>, "bar")
    ELSE IF fault = "compute"
    THEN Finding(FALSE, "comparison", FailureText("stat: comparison failed: "), "bar")
    ELSE Finding(TRUE, "comparison", <<"stat: comparison">>, "bar")

\* _analyze_trend
analyze_trend(d, fault) ==
    IF d.num = 0
    THEN Finding(FALSE, "trend", <<"stat: no numeric data">>, "line")
    ELSE IF fault = "compute"
    THEN Finding(FALSE, "trend", FailureText("stat: trend failed: "), "line")
    ELSE IF d.rows < 2
    THEN Finding(FALSE, "trend", <<"stat: not enough data">>, "line")
    ELSE Finding(TRUE, "trend", <<"stat: trend">>, "line")

\* A faulty _analyze_aggregate: no except clause around the computation.
analyze_aggregate_unguarded(d, fault) ==
    IF d.num = 0
    THEN Finding(FALSE, "aggregate", <<"stat: no numeric data">>, "table")
    ELSE IF fault = "compute" THEN Raised(ExcInternal)
    ELSE Finding(TRUE, "aggregate", <<"stat: aggregate">>, "bar")

\* _analyze_aggregate
analyze_aggregate(d, fault) ==
    IF d.num = 0
    THEN Finding(FALSE, "aggregate", <<"stat: no numeric data">>, "table")
    ELSE IF fault = "compute"
    THEN Finding(FALSE, "aggregate", FailureText("stat: aggregate failed: "), "table")
    ELSE Finding(TRUE, "aggregate", <<"stat: aggregate">>, "bar")

\* A faulty analyze: the intent is looked at before the rows.
analyze_routing_first(d, intent_type, fault) ==
    IF intent_type = "correlation" THEN Finding(FALSE, "correlation", None, "scatter")
    ELSE IF intent_type = "comparison" THEN Finding(FALSE, "comparison", None, "bar")
    ELSE IF intent_type = "trend" THEN Finding(FALSE, "trend", None, "line")
    ELSE IF intent_type = "aggregate" THEN Finding(FALSE, "aggregate", None, "table")
    ELSE Finding(FALSE, "None", None, "table")

\* analyze, on the shape of the rows
analyze(d, intent_type, fault) ==
    IF ~d.present \/ d.rows = 0 THEN Finding(FALSE, "None", None, "none")
    ELSE IF fault = "convert" THEN Finding(FALSE, "None", None, "none")
    ELSE IF intent_type = "correlation" THEN analyze_correlation(d, fault)
    ELSE IF intent_type = "comparison" THEN analyze_comparison(d, fault)
    ELSE IF intent_type = "trend" THEN analyze_trend(d, fault)
    ELSE IF intent_type = "aggregate" THEN analyze_aggregate(d, fault)
    ELSE Finding(FALSE, "None", None, suggest_visualization(intent_type, d))

\* ------------------------------------ statistical_analysis.py, on the values
\* A null cell of a row (None in the result set, NaN in the DataFrame)
NullCell == -1

RECURSIVE SumSeq(_)
SumSeq(s) == IF s = <<>> THEN 0 ELSE s[1] + SumSeq(Tail(s))

\* df[[x_col, y_col]].dropna(): rows with a null in either column are dropped
dropna(rows) == SelectSeq(rows, LAMBDA r : r.x # NullCell /\ r.y # NullCell)

\* A real number r with |r| <= 1, held exactly: r = sgn * sqrt(num2 / den);
\* nan is the float NaN.
Real(sgn, num2, den) == [nan |-> FALSE, sgn |-> sgn, num2 |-> num2, den |-> den]
NaN == [nan |-> TRUE, sgn |-> 0, num2 |-> 0, den |-> 1]
Zero == Real(0, 0, 1)

\* Series.corr (Pearson): covariance over the product of the deviations; NaN
\* when one of the columns is constant.
corr(rows) ==
    LET n   == Len(rows)
        xs  == [i \in 1..n |-> rows[i].x]
        ys  == [i \in 1..n |-> rows[i].y]
        sx  == SumSeq(xs)
        sy  == SumSeq(ys)
        sxx == n * SumSeq([i \in 1..n |-> xs[i] * xs[i]]) - sx * sx
        syy == n * SumSeq([i \in 1..n |-> ys[i] * ys[i]]) - sy * sy
        sxy == n * SumSeq([i \in 1..n |-> xs[i] * ys[i]]) - sx * sy
    IN  IF sxx * syy = 0 THEN NaN
        ELSE Real(IF sxy > 0 THEN 1 ELSE IF sxy < 0 THEN -1 ELSE 0, sxy * sxy, sxx * syy)

\* A faulty _interpret_correlation: zero counts as negative.
interpret_correlation_zero_negative(value) ==
    <<IF 25 * value.num2 < value.den THEN "very_weak"
      ELSE IF 25 * value.num2 < 4 * value.den THEN "weak"
      ELSE IF 25 * value.num2 < 9 * value.den THEN "moderate"
      ELSE IF 25 * value.num2 < 16 * value.den THEN "strong"
      ELSE "very_strong",
      IF value.sgn > 0 THEN "positive" ELSE "negative">>

\* _interpret_correlation -> <<strength, direction>>. abs(value) < k/5 is
\* compared on the squares: 25 * num2 < k*k * den.
interpret_correlation(value) ==
    <<IF 25 * value.num2 < value.den THEN "very_weak"
      ELSE IF 25 * value.num2 < 4 * value.den THEN "weak"
      ELSE IF 25 * value.num2 < 9 * value.den THEN "moderate"
      ELSE IF 25 * value.num2 < 16 * value.den THEN "strong"
      ELSE "very_strong",
      IF value.sgn >= 0 THEN "positive" ELSE "negative">>

\* The largest k in lo..hi with (2k - 1)^2 <= f (lo when there is none)
RECURSIVE RootSearch(_, _, _)
RootSearch(f, lo, hi) ==
    IF lo >= hi THEN lo
    ELSE LET mid == (lo + hi + 1) \div 2
         IN  IF (2 * mid - 1) * (2 * mid - 1) <= f
             THEN RootSearch(f, mid, hi)
             ELSE RootSearch(f, lo, mid - 1)

\* round(value, 3), in thousandths: the k nearest to 1000 * |value|, signed.
\* f is floor(4 * 10^6 * num2 / den), computed without leaving 32 bits.
round3(value) ==
    LET m == value.num2 * 1000000
        f == 4 * (m \div value.den) + (4 * (m % value.den)) \div value.den
    IN  value.sgn * RootSearch(f, 0, 1000)

\* _analyze_correlation from line 112 on, for the two chosen columns: the
\* statistical_result, or no analysis when fewer than three rows are left.
analyze_correlation_rows(rows) ==
    LET clean_df     == dropna(rows)
        correlation0 == corr(clean_df)
        correlation  == IF correlation0.nan THEN Zero ELSE correlation0
        sd           == interpret_correlation(correlation)
    IN  IF Len(clean_df) < 3
        THEN [has_analysis |-> FALSE, r |-> NaN, correlation_coefficient |-> 0,
              strength |-> "none", direction |-> "none", sample_size |-> Len(clean_df)]
        ELSE [has_analysis |-> TRUE, r |-> correlation,
              correlation_coefficient |-> round3(correlation),
              strength |-> sd[1], direction |-> sd[2], sample_size |-> Len(clean_df)]

\* The group labels of the text column, in the order groupby sorts them; rows
\* with a null label belong to no group.
GroupLabels == <<"A", "B">>
NullLabel == "null"

\* The non-null metric values of group g, and whether the group has a mean
GroupValues(rows, g) ==
    LET own == SelectSeq(rows, LAMBDA r : r.g = g /\ r.v # NullCell)
    IN  [i \in 1..Len(own) |-> own[i].v]

Grouped(rows) ==
    {g \in {GroupLabels[i] : i \in 1..Len(GroupLabels)} :
        \E i \in 1..Len(rows) : rows[i].g = g}

\* mean(a) < mean(b), for non-empty a and b
MeanLess(a, b) == SumSeq(a) * Len(b) < SumSeq(b) * Len(a)

\* grouped['mean'].idxmax(): the first label, in sorted order, whose mean no
\* other group's mean exceeds; groups without a value are skipped.
idxmax(rows) ==
    LET live == {i \in 1..Len(GroupLabels) :
                    GroupLabels[i] \in Grouped(rows) /\ GroupValues(rows, GroupLabels[i]) # <<>>}
        best == {i \in live : \A j \in live :
                    ~MeanLess(GroupValues(rows, GroupLabels[i]), GroupValues(rows, GroupLabels[j]))}
    IN  GroupLabels[CHOOSE i \in best : \A j \in best : i <= j]

\* grouped['mean'].idxmin()
idxmin(rows) ==
    LET live == {i \in 1..Len(GroupLabels) :
                    GroupLabels[i] \in Grouped(rows) /\ GroupValues(rows, GroupLabels[i]) # <<>>}
        best == {i \in live : \A j \in live :
                    ~MeanLess(GroupValues(rows, GroupLabels[j]), GroupValues(rows, GroupLabels[i]))}
    IN  GroupLabels[CHOOSE i \in best : \A j \in best : i <= j]

\* A faulty _analyze_comparison: highest and lowest are exchanged.
analyze_comparison_rows_exchanged(rows) ==
    IF \A i \in 1..Len(rows) : rows[i].v = NullCell
    THEN [has_analysis |-> FALSE, highest |-> NullLabel, lowest |-> NullLabel]
    ELSE IF Grouped(rows) = {}
    THEN [has_analysis |-> TRUE, highest |-> NullLabel, lowest |-> NullLabel]
    ELSE IF \A g \in Grouped(rows) : GroupValues(rows, g) = <<>>
    THEN [has_analysis |-> FALSE, highest |-> NullLabel, lowest |-> NullLabel]
    ELSE [has_analysis |-> TRUE, highest |-> idxmin(rows), lowest |-> idxmax(rows)]

\* _analyze_comparison for rows of a text column g and a metric column v.
\* A column of nulls only is not numeric (line 174); no row with a label
\* leaves grouped empty (lines 200-201); when no group has a value idxmax
\* raises and the except clause answers.
analyze_comparison_rows(rows) ==
    IF \A i \in 1..Len(rows) : rows[i].v = NullCell
    THEN [has_analysis |-> FALSE, highest |-> NullLabel, lowest |-> NullLabel]
    ELSE IF Grouped(rows) = {}
    THEN [has_analysis |-> TRUE, highest |-> NullLabel, lowest |-> NullLabel]
    ELSE IF \A g \in Grouped(rows) : GroupValues(rows, g) = <<>>
    THEN [has_analysis |-> FALSE, highest |-> NullLabel, lowest |-> NullLabel]
    ELSE [has_analysis |-> TRUE, highest |-> idxmax(rows), lowest |-> idxmin(rows)]

\* A faulty _analyze_trend: equal means count as increasing.
analyze_trend_rows_nonstrict(series) ==
    LET values == SelectSeq(series, LAMBDA v : v # NullCell)
        n      == Len(values)
        h      == n \div 2
        s1     == SumSeq(SubSeq(values, 1, h))
        s2     == SumSeq(SubSeq(values, h + 1, n))
    IN  IF n < 2 THEN [has_analysis |-> FALSE, direction |-> "none", strength |-> 0]
        ELSE [has_analysis |-> TRUE,
              direction |-> IF s2 * h >= s1 * (n - h) THEN "increasing" ELSE "decreasing",
              strength |-> 0]

\* _analyze_trend from line 269 on, for the values of the first numeric
\* column in row order. The halves are values[:n//2] and values[n//2:]; their
\* means s1/h and s2/(n-h) are compared exactly. strength is
\* round(abs(second - first) / first, 3) in thousandths, 0 when first is 0:
\* |s2*h - s1*(n-h)| / ((n-h) * s1), whose sign is the sign of s1.
analyze_trend_rows(series) ==
    LET values == SelectSeq(series, LAMBDA v : v # NullCell)
        n      == Len(values)
        h      == n \div 2
        s1     == SumSeq(SubSeq(values, 1, h))
        s2     == SumSeq(SubSeq(values, h + 1, n))
        d      == s2 * h - s1 * (n - h)
        a      == IF d >= 0 THEN d ELSE -d
        b      == (n - h) * (IF s1 >= 0 THEN s1 ELSE -s1)
    IN  IF n < 2 THEN [has_analysis |-> FALSE, direction |-> "none", strength |-> 0]
        ELSE [has_analysis |-> TRUE,
              direction |-> IF s2 * h > s1 * (n - h) THEN "increasing" ELSE "decreasing",
              strength |-> IF s1 = 0 THEN 0
                           ELSE (IF s1 > 0 THEN 1 ELSE -1) * ((2000 * a + b) \div (2 * b))]

\* An infinite cell of a float column, and a statistic reported as None (the
\* statistics themselves are never negative here)
InfCell == 1000000
Missing == -1

\* _analyze_aggregate for the cells of the first numeric column; the numbers
\* of the statistical_result are round(v, 2), held in hundredths. describe()
\* skips nulls; std is the sample deviation, NaN for a single value; an
\* infinite cell makes the mean non-finite, _safe_num turns it into None, and
\* formatting None with :.2f (lines 355-358) raises inside the try block.
analyze_aggregate_rows(column) ==
    LET values == SelectSeq(column, LAMBDA v : v # NullCell)
        n      == Len(values)
        sum    == SumSeq(values)
        Kth(k) == CHOOSE v \in {values[i] : i \in 1..n} :
                     /\ Cardinality({i \in 1..n : values[i] < v}) < k
                     /\ k <= Cardinality({i \in 1..n : values[i] <= v})
        a      == n * SumSeq([i \in 1..n |-> values[i] * values[i]]) - sum * sum
        b      == n * (n - 1)
        failed == [has_analysis |-> FALSE, mean |-> Missing, median |-> Missing,
                   std |-> Missing, min |-> Missing, max |-> Missing, count |-> 0]
    IN  IF n = 0 THEN failed
        ELSE IF \E i \in 1..n : values[i] = InfCell THEN failed
        ELSE [has_analysis |-> TRUE,
              mean   |-> (200 * sum + n) \div (2 * n),
              median |-> IF n % 2 = 1 THEN 100 * Kth((n + 1) \div 2)
                         ELSE 50 * (Kth(n \div 2) + Kth(n \div 2 + 1)),
              std    |-> IF n = 1 THEN Missing
                         ELSE RootSearch(4 * ((10000 * a) \div b)
                                            + (4 * ((10000 * a) % b)) \div b, 0, 10000),
              min    |-> 100 * Kth(1),
              max    |-> 100 * Kth(n),
              count  |-> n]

\* _identify_correlation_columns. The numeric columns are numbered 1..n in
\* frame order, the metrics 1..k in list order, match holds the pairs
\* <<metric, column>> where one name contains the other, and 0 stands for None.
\* Scan is the double loop from pair number p on (metric by metric, column by
\* column), with the break that leaves the columns of a metric once y is set.
RECURSIVE Scan(_, _, _, _, _, _)
Scan(n, k, match, p, x_col, y_col) ==
    LET metric == ((p - 1) \div n) + 1
        col    == ((p - 1) % n) + 1
    IN  IF p > k * n THEN <<x_col, y_col>>
        ELSE IF <<metric, col>> \notin match THEN Scan(n, k, match, p + 1, x_col, y_col)
        ELSE IF x_col = 0 THEN Scan(n, k, match, p + 1, col, y_col)
        ELSE IF y_col = 0 THEN Scan(n, k, match, metric * n + 1, x_col, col)
        ELSE Scan(n, k, match, p + 1, x_col, y_col)

identify_correlation_columns(n, k, match) ==
    LET found == Scan(n, k, match, 1, 0, 0)
    IN  IF n < 2 THEN <<0, 0>>
        ELSE IF found[1] = 0 \/ found[2] = 0 THEN <<1, 2>>
        ELSE found

\* ------------------------------------------------ gemini_response_formatter.py
\* What the formatting model's parsed answer may say.
FormatterReplies == [needs : BOOLEAN, vt : {"none", "chart", "table", "line"}]

\* _fallback_format: a text built from the row count
fallback_format(q, d) ==
    LET needs_viz == q.terms \cap {"rasm", "chart"} # {}
    IN  <<TRUE,
          [response |-> IF d.rows = 0 THEN <<"fmt: no results">>
                        ELSE IF d.rows = 1 THEN <<"fmt: the result is", "<row>">>
                        ELSE <<"fmt: found", "<n>", "results">>,
           needs_visualization |-> needs_viz,
           visualization_type |-> IF needs_viz THEN "chart" ELSE "none"]>>

\* A faulty format_response: a failure of the model call is reported as failure.
format_response_reporting_failure(available, q, d, raised, reply) ==
    IF ~available \/ raised
    THEN <<FALSE, [response |-> None, needs_visualization |-> FALSE,
                   visualization_type |-> "none"]>>
    ELSE <<TRUE,
           [response |-> <<"llm: formatted answer">>,
            needs_visualization |-> reply.needs,
            visualization_type |-> reply.vt]>>

\* format_response -> <<success, formatted_response>>; every failure of the
\* model call ends in _fallback_format.
format_response(available, q, d, raised, reply) ==
    IF ~available \/ raised THEN fallback_format(q, d)
    ELSE <<TRUE,
           [response |-> <<"llm: formatted answer">>,
            needs_visualization |-> reply.needs,
            visualization_type |-> reply.vt]>>


\* ================================ chat_service.py: ChatService.handle_question
\* What the SQL model may answer: SELECT <middle> LIMIT 10 for every middle,
\* the same inside a markdown block or inside prose, and an answer without SQL.
MidWords == {"FROM", "t", "LIMIT", "DELETE"}

LlmSqlReplies ==
    {<<"SELECT">> \o m \o <<"LIMIT", "10">> : m \in SeqsUpTo(MidWords, MaxMid)}
    \cup { <<"sorry">>,
           <<"SELECT", "*", "FROM", "LIMIT", "10">>,
           <<"SELECT", "*", "FROM", "t", "LIMIT", "10">>,
           <<"SELECT", "*", "FROM", "t", "FROM", "LIMIT", "10">>,
           <<"~~~", "SELECT", "*", "FROM", "t", "LIMIT", "10", "~~~">>,
           <<"here:", "select", "*", "from", "t", "limit", "10", "thanks">> }

\* The catalog query of SchemaStore.get_all_tables (schema_store.py)
CatalogSql == <<"SELECT", "table_name", "FROM", "information_schema.tables">>

Out(kind, success, answer, error, sql, d, needs, vt, isdb, chart) ==
    [kind |-> kind, success |-> success, answer |-> answer, error |-> error,
     sql_query |-> sql, data |-> d, needs_visualization |-> needs,
     visualization_type |-> vt, is_database_related |-> isdb, chart |-> chart]

\* The dict of lines 63-69 (no LLM chains)
LlmUnavailableOutcome ==
    Out("llm_unavailable", FALSE, None,
        <<"LLM service is not available. Please configure OPENAI_API_KEY.">>,
        None, NoData, FALSE, "none", TRUE, FALSE)

\* The dict of the except clause, lines 418-443
ExceptOutcome(q, error_msg) ==
    LET error_message == get_professional_error_message(q, "general_error", error_msg)
    IN  Out("exception", FALSE, error_message, error_message, None, NoData,
            FALSE, "none", TRUE, FALSE)

\* The dict of lines 90-100
SensitiveOutcome(sensitive_reason) ==
    Out("sensitive", FALSE, sensitive_reason, sensitive_reason, None, NoData,
        FALSE, "none", TRUE, FALSE)

\* The dicts of lines 117-135
GeneralOutcome(h) ==
    IF h[1]
    THEN Out("general_answered", TRUE, h[2], None, None, NoData, FALSE, "none", FALSE, FALSE)
    ELSE Out("general_failed", FALSE, None,
             <<"Failed to handle general question: ">> \o h[3],
             None, NoData, FALSE, "none", TRUE, FALSE)

\* The dict of lines 201-211
SqlGenerationFailedOutcome(q, sql_error) ==
    LET error_message == get_professional_error_message(q, "sql_generation", sql_error)
    IN  Out("sql_generation_failed", FALSE, error_message, error_message, None,
            NoData, FALSE, "none", TRUE, FALSE)

\* The dict of lines 239-249
SqlExecutionFailedOutcome(q, sql_query, exec_error) ==
    LET error_type    == IF MentionsIncomplete(exec_error)
                         THEN "incomplete_query" ELSE "sql_execution"
        error_message == get_professional_error_message(q, error_type, exec_error)
    IN  Out("sql_execution_failed", FALSE, error_message, error_message, sql_query,
            NoData, FALSE, "none", TRUE, FALSE)

\* _user_requested_analysis
user_requested_analysis(q) == q.terms \cap {"analysis", "chart", "rasm"} # {}

\* A faulty assembly: the formatter's visualization type is kept whatever the
\* analysis suggests.
AssembleFormatted_keeping_formatter_type(q, sql_query, d, intent_type, st, fr, chartOk, showSql) ==
    LET needs0 == fr.needs_visualization
        vt1    == fr.visualization_type
        vt2    == IF needs0 /\ vt1 \in {"chart", "graph", "none"}
                  THEN IF intent_type \in {"aggregate", "comparison"} \/ "top" \in q.terms
                       THEN "bar"
                       ELSE IF intent_type = "trend" THEN "line" ELSE "bar"
                  ELSE vt1
        asked  == ~needs0 /\ "chart" \in q.terms
        needs  == needs0 \/ asked
        vt     == IF asked THEN "bar" ELSE vt2
        render == needs /\ vt # "none" /\ vt # "table"
        answer == IF user_requested_analysis(q) /\ st.has_analysis /\ st.interpretation # None
                  THEN st.interpretation \o <<"\n\n">> \o fr.response
                  ELSE fr.response
    IN  [raised |-> FALSE, render |-> render, step |-> "response_formatted",
         out |-> Out("formatted", TRUE, answer, None,
                     IF showSql THEN sql_query ELSE None, d, needs, vt, TRUE,
                     render /\ chartOk)]

\* A faulty assembly: the question's chart keywords are not looked at.
AssembleFormatted_trusting_formatter(q, sql_query, d, intent_type, st, fr, chartOk, showSql) ==
    LET needs0 == fr.needs_visualization
        vt0    == fr.visualization_type
        vt1    == IF needs0 /\ st.has_analysis /\ st.visualization_type # "none"
                  THEN st.visualization_type ELSE vt0
        vt2    == IF needs0 /\ vt1 \in {"chart", "graph", "none"}
                  THEN IF intent_type \in {"aggregate", "comparison"} \/ "top" \in q.terms
                       THEN "bar"
                       ELSE IF intent_type = "trend" THEN "line" ELSE "bar"
                  ELSE vt1
        render == needs0 /\ vt2 # "none" /\ vt2 # "table"
        answer == IF user_requested_analysis(q) /\ st.has_analysis /\ st.interpretation # None
                  THEN st.interpretation \o <<"\n\n">> \o fr.response
                  ELSE fr.response
    IN  [raised |-> FALSE, render |-> render, step |-> "response_formatted",
         out |-> Out("formatted", TRUE, answer, None,
                     IF showSql THEN sql_query ELSE None, d, needs0, vt2, TRUE,
                     render /\ chartOk)]

\* Lines 273-348: the formatter answered.
\* Returns the outcome and whether the chart renderer was called.
AssembleFormatted(q, sql_query, d, intent_type, st, fr, chartOk, showSql) ==
    LET needs0 == fr.needs_visualization
        vt0    == fr.visualization_type
        vt1    == IF needs0 /\ st.has_analysis /\ st.visualization_type # "none"
                  THEN st.visualization_type ELSE vt0
        vt2    == IF needs0 /\ vt1 \in {"chart", "graph", "none"}
                  THEN IF intent_type \in {"aggregate", "comparison"} \/ "top" \in q.terms
                       THEN "bar"
                       ELSE IF intent_type = "trend" THEN "line" ELSE "bar"
                  ELSE vt1
        asked  == ~needs0 /\ "chart" \in q.terms
        needs  == needs0 \/ asked
        vt     == IF asked THEN "bar" ELSE vt2
        render == needs /\ vt # "none" /\ vt # "table"
        answer == IF user_requested_analysis(q) /\ st.has_analysis /\ st.interpretation # None
                  THEN st.interpretation \o <<"\n\n">> \o fr.response
                  ELSE fr.response
    IN  [raised |-> FALSE, render |-> render, step |-> "response_formatted",
         out |-> Out("formatted", TRUE, answer, None,
                     IF showSql THEN sql_query ELSE None, d, needs, vt, TRUE,
                     render /\ chartOk)]

\* Lines 349-416: the formatter reported failure. needs_visualization is read
\* at line 366 before anything assigned it, which raises UnboundLocalError.
AssembleFallback(q, sql_query, d, intent_type, st, sumOk, chartOk, showSql) ==
    LET answer0 == IF sumOk THEN <<"llm: summary">>
                   ELSE <<"Query executed successfully. Results: ", "<data>">>
        needs   == q.terms \cap {"rasm", "chart", "diagram"} # {}
        vt      == IF needs THEN "chart" ELSE "none"
        render  == needs /\ vt # "none" /\ vt # "table"
        answer  == answer0
    IN  IF st.has_analysis
        THEN [raised |-> TRUE, render |-> FALSE, step |-> "none",
              out |-> ExceptOutcome(q, ExcInternal)]
        ELSE [raised |-> FALSE, render |-> render, step |-> "answer_generated",
              out |-> Out("fallback", TRUE, answer, None,
                          IF showSql THEN sql_query ELSE None, d, needs, vt, TRUE,
                          render /\ chartOk)]


\* ------------------------------------------------ validate on every input
\* Words the SQL strings given to validate are made of.
ValidateWords ==
    {"SELECT", "select", "DELETE", "DROP", "CALL", "FROM", "t", "(", ")", ";"}

\* No request is being handled.
PipelineIdle ==
    /\ cfg = [llm |-> TRUE, gemini |-> TRUE, showSql |-> TRUE]
    /\ question = NoQuestion /\ qUse = NoQuestion /\ isDb = TRUE /\ intent = "unset"
    /\ sqlQuery = None /\ data = NoData /\ stats = NoStats
    /\ steps = <<>> /\ log = <<>> /\ outcome = NoOutcome /\ schemaCache = None

pipelineVars == <<cfg, question, qUse, isDb, intent, sqlQuery, data, stats,
                  steps, log, outcome, schemaCache>>

InitValidate ==
    /\ pc = "validate"
    /\ fnIn \in SeqsUpTo(ValidateWords, MaxSqlLen)
    /\ fnOut = <<>>
    /\ PipelineIdle

\* sql_validator.validate(sql) on the chosen string
ApplyValidate ==
    /\ pc = "validate" /\ fnOut = <<>>
    /\ fnOut' = <<validate(fnIn)>>
    /\ UNCHANGED <<pc, fnIn, pipelineVars>>

SpecValidate == InitValidate /\ [][ApplyValidate]_vars


\* ------------------------------------------------ generate on every reply
MaxReplyLen == 6

\* Words the SQL model's reply is made of; "prose" is any other word.
ExtractWords == {"~~~", "select", "t", "LIMIT", "10", "prose"}

InitExtract ==
    /\ pc = "extract"
    /\ fnIn \in SeqsUpTo(ExtractWords, MaxReplyLen)
    /\ fnOut = <<>>
    /\ PipelineIdle

\* _extract_sql(response.content), and generate on the same reply
ApplyExtract ==
    /\ pc = "extract" /\ fnOut = <<>>
    /\ fnOut' = <<extract_sql(fnIn), generate(FALSE, fnIn)>>
    /\ UNCHANGED <<pc, fnIn, pipelineVars>>

SpecExtract == InitExtract /\ [][ApplyExtract]_vars

\* ------------------------------------------------ sanitize on every input
SanitizeWords == {"SELECT", "FROM", "t", "limited", "LIMIT", "limit", "10", ";"}

InitSanitize ==
    /\ pc = "sanitize"
    /\ fnIn \in SeqsUpTo(SanitizeWords, MaxSqlLen)
    /\ fnOut = <<>>
    /\ PipelineIdle

\* sanitize(sql) and sanitize(sanitize(sql)), with validate's verdict on sql
ApplySanitize ==
    /\ pc = "sanitize" /\ fnOut = <<>>
    /\ fnOut' = <<sanitize(fnIn), sanitize(sanitize(fnIn)), validate(fnIn)>>
    /\ UNCHANGED <<pc, fnIn, pipelineVars>>

SpecSanitize == InitSanitize /\ [][ApplySanitize]_vars


\* ------------------------------------------------ analyze on every input
MaxRows == 4

IntentTypes == {"list", "aggregate", "comparison", "trend", "correlation", "unknown"}

\* Result sets by shape: rows, numeric columns, text columns
AnalyzeShapes ==
    {NoData} \cup [present : {TRUE}, rows : 0..MaxRows, num : 0..2, txt : 0..1]

InitAnalyze ==
    /\ pc = "analyze_fn"
    /\ fnIn \in [d : AnalyzeShapes, intent : IntentTypes, fault : AnalysisFaults]
    /\ fnOut = <<>>
    /\ PipelineIdle

ApplyAnalyze ==
    /\ pc = "analyze_fn" /\ fnOut = <<>>
    /\ fnOut' = <<analyze(fnIn.d, fnIn.intent, fnIn.fault)>>
    /\ UNCHANGED <<pc, fnIn, pipelineVars>>

SpecAnalyze == InitAnalyze /\ [][ApplyAnalyze]_vars


\* ------------------------------------------------ detect on every question
\* A question is given by how many patterns of each category it matches.
InitDetect ==
    /\ pc = "detect"
    /\ fnIn \in [Categories -> 0..PatternsPerCategory]
    /\ fnOut = <<>>
    /\ PipelineIdle

ApplyDetect ==
    /\ pc = "detect" /\ fnOut = <<>>
    /\ fnOut' = <<detect(fnIn)>>
    /\ UNCHANGED <<pc, fnIn, pipelineVars>>

SpecDetect == InitDetect /\ [][ApplyDetect]_vars


\* ------------------------------------ correlation analysis on every input
MaxVal == 2

\* Rows of the two chosen columns: x small enough for y = 2x to fit, y any
\* value or null.
CorrelationRows == [x : 0..(MaxVal \div 2), y : (0..MaxVal) \cup {NullCell}]

InitCorrelation ==
    /\ pc = "correlation"
    /\ fnIn \in SeqsUpTo(CorrelationRows, MaxRows)
                \cup {<<[x |-> 0, y |-> 0], [x |-> 0, y |-> 3], [x |-> 1, y |-> 4],
                        [x |-> 3, y |-> 1], [x |-> 3, y |-> 4]>>}
    /\ fnOut = <<>>
    /\ PipelineIdle

ApplyCorrelation ==
    /\ pc = "correlation" /\ fnOut = <<>> /\ fnIn # <<>>
    /\ fnOut' = <<analyze_correlation_rows(fnIn)>>
    /\ UNCHANGED <<pc, fnIn, pipelineVars>>

SpecCorrelation == InitCorrelation /\ [][ApplyCorrelation]_vars

\* ------------------------------------- comparison analysis on every input
\* The metric values of the rows
MetricValues == {10, 50}

ComparisonRows ==
    [g : {GroupLabels[i] : i \in 1..Len(GroupLabels)} \cup {NullLabel},
     v : MetricValues \cup {NullCell}]

InitComparison ==
    /\ pc = "comparison"
    /\ fnIn \in SeqsUpTo(ComparisonRows, MaxRows)
    /\ fnOut = <<>>
    /\ PipelineIdle

ApplyComparison ==
    /\ pc = "comparison" /\ fnOut = <<>> /\ fnIn # <<>>
    /\ fnOut' = <<analyze_comparison_rows(fnIn)>>
    /\ UNCHANGED <<pc, fnIn, pipelineVars>>

SpecComparison == InitComparison /\ [][ApplyComparison]_vars


\* ------------------------------------------- trend analysis on every input
\* The cells of the metric column: a number (negative ones included) or null
TrendCells == {v \in (-MaxVal - 1)..MaxVal : v # NullCell} \cup {NullCell}

InitTrend ==
    /\ pc = "trend"
    /\ fnIn \in SeqsUpTo(TrendCells, MaxRows)
                  \cup {<<1, 2, 3, 4, 5, 6>>, <<6, 5, 4, 3, 2, 1>>}
    /\ fnOut = <<>>
    /\ PipelineIdle

ApplyTrend ==
    /\ pc = "trend" /\ fnOut = <<>> /\ fnIn # <<>>
    /\ fnOut' = <<analyze_trend_rows(fnIn)>>
    /\ UNCHANGED <<pc, fnIn, pipelineVars>>

SpecTrend == InitTrend /\ [][ApplyTrend]_vars


\* --------------------------------------- aggregate analysis on every input
AggregateCells == (0..MaxVal) \cup {NullCell, InfCell}

InitAggregate ==
    /\ pc = "aggregate"
    /\ fnIn \in SeqsUpTo(AggregateCells, MaxRows) \cup {<<1, 2, 3, 4, 5>>}
    /\ fnOut = <<>>
    /\ PipelineIdle

ApplyAggregate ==
    /\ pc = "aggregate" /\ fnOut = <<>> /\ fnIn # <<>>
    /\ fnOut' = <<analyze_aggregate_rows(fnIn)>>
    /\ UNCHANGED <<pc, fnIn, pipelineVars>>

SpecAggregate == InitAggregate /\ [][ApplyAggregate]_vars


\* ------------------------------------ the completeness check on every input
\* Words the candidates are made of; from_x and limited are identifiers that
\* hold a keyword's letters.
CompletenessWords == {"SELECT", "select", "FROM", "from_x", "t", "LIMIT", "limited", "10"}

InitCompleteness ==
    /\ pc = "completeness"
    /\ fnIn \in SeqsUpTo(CompletenessWords, MaxSqlLen)
    /\ fnOut = <<>>
    /\ PipelineIdle

\* _validate_sql_completeness(sql) on the chosen candidate, and generate on a
\* model reply consisting of that candidate
ApplyCompleteness ==
    /\ pc = "completeness" /\ fnOut = <<>>
    /\ fnOut' = <<validate_sql_completeness(fnIn), generate(FALSE, fnIn)>>
    /\ UNCHANGED <<pc, fnIn, pipelineVars>>

SpecCompleteness == InitCompleteness /\ [][ApplyCompleteness]_vars

\* ------------------------- requests sharing the schema store (schema_store.py)
\* Requests served by threads of one process. In this specification pc, fnIn
\* and fnOut are functions of the request: its position, what the catalog
\* answers to its own reads ("full", or "empty" when the reads fail and
\* get_all_tables returns []), and the schema context it obtained.
MaxRequests == 3

Requests == 1..MaxRequests

InitConcurrent ==
    /\ pc = [r \in Requests |-> "clear"]
    /\ fnIn \in [Requests -> {"full", "empty"}]
    /\ fnOut = [r \in Requests |-> "pending"]
    /\ cfg = [llm |-> TRUE, gemini |-> TRUE, showSql |-> TRUE]
    /\ question = NoQuestion /\ qUse = NoQuestion /\ isDb = TRUE /\ intent = "unset"
    /\ sqlQuery = None /\ data = NoData /\ stats = NoStats
    /\ steps = <<>> /\ log = <<>> /\ outcome = NoOutcome /\ schemaCache = None

concurrentIdle == <<cfg, question, qUse, isDb, intent, sqlQuery, data, stats,
                    steps, log, outcome>>

\* clear_cache (line 145)
ClearCache(r) ==
    /\ pc[r] = "clear"
    /\ schemaCache' = None
    /\ pc' = [pc EXCEPT ![r] = "check"]
    /\ UNCHANGED <<fnIn, fnOut, concurrentIdle>>

\* get_schema_context, line 98: the test of self._schema_cache
CheckCache(r) ==
    /\ pc[r] = "check"
    /\ pc' = [pc EXCEPT ![r] = IF schemaCache # None THEN "read" ELSE "fetch"]
    /\ UNCHANGED <<schemaCache, fnIn, fnOut, concurrentIdle>>

\* Line 99: self._schema_cache is loaded again and .get is called on it; on
\* None this raises AttributeError, which handle_question's except clause
\* turns into a failed outcome.
ReadCache(r) ==
    /\ pc[r] = "read"
    /\ fnOut' = [fnOut EXCEPT ![r] = IF schemaCache = None THEN "AttributeError"
                                     ELSE schemaCache[1]]
    /\ pc' = [pc EXCEPT ![r] = "done"]
    /\ UNCHANGED <<schemaCache, fnIn, concurrentIdle>>

\* Lines 101-141: the catalog is read, the context formatted, the cache filled
FillCache(r) ==
    /\ pc[r] = "fetch"
    /\ schemaCache' = <<fnIn[r]>>
    /\ fnOut' = [fnOut EXCEPT ![r] = fnIn[r]]
    /\ pc' = [pc EXCEPT ![r] = "done"]
    /\ UNCHANGED <<fnIn, concurrentIdle>>

NextConcurrent ==
    \E r \in Requests : ClearCache(r) \/ CheckCache(r) \/ ReadCache(r) \/ FillCache(r)

SpecConcurrent == InitConcurrent /\ [][NextConcurrent]_vars


\* ------------------------------------------- the query cache (query_cache.py)
\* In this specification fnIn is the QueryCache object with its clock and the
\* record of what was stored and deleted, and fnOut the last call and result:
\* cache maps a query id to its expires_at, times are seconds, the ids handed
\* out by uuid4 are 1, 2, ... in order of issue.
ttl_hours == 1

cleanup_interval == 300

MaxIds == 2

MaxAdvances == 4

\* The clock moves in thirds of the time to live.
ClockStep == (ttl_hours * 3600) \div 3

\* A faulty get: the expiry is not looked at.
get_ignoring_expiry(c, query_id) ==
    IF query_id \notin DOMAIN c.cache THEN [c |-> c, res |-> <<>>]
    ELSE [c |-> c, res |-> <<c.cache[query_id]>>]

\* get: <<>> stands for None, <<expires_at>> for the entry
get(c, query_id) ==
    IF query_id \notin DOMAIN c.cache THEN [c |-> c, res |-> <<>>]
    ELSE IF c.now > c.cache[query_id]
    THEN [c |-> [c EXCEPT !.cache = [q \in DOMAIN c.cache \ {query_id} |-> c.cache[q]]],
          res |-> <<>>]
    ELSE [c |-> c, res |-> <<c.cache[query_id]>>]

InitCache ==
    /\ pc = "cache"
    /\ fnIn = [cache |-> <<>>, now |-> 0, last_cleanup |-> 0,
               stored |-> <<>>, deleted |-> {}]
    /\ fnOut = <<>>
    /\ PipelineIdle

\* store, with _cleanup_expired at its end
Store ==
    /\ pc = "cache" /\ Len(fnIn.stored) < MaxIds
    /\ LET query_id   == Len(fnIn.stored) + 1
           expires_at == fnIn.now + ttl_hours * 3600
           filled     == fnIn.cache @@ (query_id :> expires_at)
           skip       == fnIn.now - fnIn.last_cleanup < cleanup_interval
           kept       == {q \in DOMAIN filled : ~(filled[q] < fnIn.now)}
       IN  /\ fnIn' = [fnIn EXCEPT
                         !.cache = IF skip THEN filled ELSE [q \in kept |-> filled[q]],
                         !.last_cleanup = IF skip THEN @ ELSE fnIn.now,
                         !.stored = Append(@, expires_at)]
           /\ fnOut' = <<"store", query_id, <<>>>>
    /\ UNCHANGED <<pc, pipelineVars>>

Get ==
    /\ pc = "cache"
    /\ \E query_id \in 1..MaxIds :
         /\ fnIn' = get(fnIn, query_id).c
         /\ fnOut' = <<"get", query_id, get(fnIn, query_id).res>>
    /\ UNCHANGED <<pc, pipelineVars>>

Delete ==
    /\ pc = "cache"
    /\ \E query_id \in 1..MaxIds :
         /\ fnIn' = [fnIn EXCEPT
                       !.cache = [q \in DOMAIN @ \ {query_id} |-> @[q]],
                       !.deleted = IF query_id \in DOMAIN fnIn.cache
                                   THEN @ \cup {query_id} ELSE @]
         /\ fnOut' = <<"delete", query_id, <<query_id \in DOMAIN fnIn.cache>>>>
    /\ UNCHANGED <<pc, pipelineVars>>

AdvanceClock ==
    /\ pc = "cache" /\ fnIn.now + ClockStep <= MaxAdvances * ClockStep
    /\ fnIn' = [fnIn EXCEPT !.now = @ + ClockStep]
    /\ fnOut' = <<"clock", 0, <<>>>>
    /\ UNCHANGED <<pc, pipelineVars>>

NextCache == Store \/ Get \/ Delete \/ AdvanceClock

SpecCache == InitCache /\ [][NextCache]_vars

\* ------------------------------ the correlation columns on every input
MaxMetrics == 2

\* A result set with n >= 2 numeric columns, k metrics, and which metric
\* matches which column name
InitColumns ==
    /\ pc = "columns"
    /\ fnIn \in UNION {[n : {n}, k : {k}, match : SUBSET ((1..k) \X (1..n))] :
                          n \in 2..(MaxMetrics + 1), k \in 0..MaxMetrics}
    /\ fnOut = <<>>
    /\ PipelineIdle

\* _analyze_correlation, lines 104-110
ApplyColumns ==
    /\ pc = "columns" /\ fnOut = <<>>
    /\ fnOut' = identify_correlation_columns(fnIn.n, fnIn.k, fnIn.match)
    /\ UNCHANGED <<pc, fnIn, pipelineVars>>

SpecColumns == InitColumns /\ [][ApplyColumns]_vars

\* ------------------------------------------------------------ the request
Init ==
    /\ pc = "start"
    /\ cfg \in [llm : BOOLEAN, gemini : BOOLEAN, showSql : BOOLEAN]
    /\ question \in Questions
    /\ qUse = NoQuestion
    /\ isDb = TRUE
    /\ intent = "unset"
    /\ sqlQuery = None
    /\ data = NoData
    /\ stats = NoStats
    /\ steps = <<>>
    /\ log = <<>>
    /\ outcome = NoOutcome
    /\ schemaCache = None
    /\ fnIn = <<>>
    /\ fnOut = <<>>

Return(o) == outcome' = o /\ pc' = "done"

\* A stage is invoked / a mandatory stage reports its (success, ...) result.
Stage(name) == Ev("stage", <<name>>, None)

Done(name, ok) == Ev("result", <<name>>, <<ok>>)

\* Lines 62-75: without the LLM chains the request ends at once.
Enter ==
    /\ pc = "start"
    /\ IF ~cfg.llm
       THEN /\ Return(LlmUnavailableOutcome)
            /\ UNCHANGED <<steps, log>>
       ELSE /\ pc' = "sensitive"
            /\ steps' = <<>>
            /\ UNCHANGED <<outcome, log>>
    /\ UNCHANGED <<cfg, question, qUse, isDb, intent, sqlQuery, data, stats,
                   schemaCache, fnIn, fnOut>>

\* Lines 77-102. The detector is a collaborator: it flags the question, clears
\* it, or raises.
SensitiveCheck ==
    /\ pc = "sensitive"
    /\ \E r \in {"clean", "sensitive", "raise"} :
         /\ log' = log \o <<Stage("sensitive")>>
                        \o (IF r = "raise" THEN <<>> ELSE <<Done("sensitive", r = "clean")>>)
         /\ CASE r = "sensitive" ->
                   /\ steps' = Append(steps, "sensitive_question_detected")
                   /\ Return(SensitiveOutcome(<<"msg: sensitive question refused">>))
              [] r = "clean" ->
                   /\ steps' = Append(steps, "sensitive_check_passed")
                   /\ pc' = "classify"
                   /\ UNCHANGED outcome
              [] OTHER ->
                   /\ Return(ExceptOutcome(question, ExcInternal))
                   /\ UNCHANGED steps
    /\ UNCHANGED <<cfg, question, qUse, isDb, intent, sqlQuery, data, stats,
                   schemaCache, fnIn, fnOut>>

\* How the classification went, for the trace.
ClassifyCase(available, raised, reply) ==
    IF ~available THEN "unavailable"
    ELSE IF raised THEN "raised"
    ELSE IF Matches(database_indicators \cup general_indicators, CleanReply(reply)) = 0
    THEN "unrecognised"
    ELSE "recognised"

\* Lines 104-111
Classify ==
    /\ pc = "classify"
    /\ \E raised \in BOOLEAN, reply \in ClassifierReplies :
         LET c == classify(cfg.gemini, raised, reply)
         IN  /\ isDb' = c[2]
             /\ log' = log \o <<Stage("classify"),
                                Ev("classified", <<ClassifyCase(cfg.gemini, raised, reply)>>, None)>>
             /\ steps' = Append(steps, "question_classified")
             /\ pc' = IF c[2] THEN "schema" ELSE "general"
    /\ UNCHANGED <<cfg, question, qUse, intent, sqlQuery, data, stats, outcome,
                   schemaCache, fnIn, fnOut>>

\* Lines 111-135
GeneralAnswer ==
    /\ pc = "general"
    /\ \E raised \in BOOLEAN :
         LET h == handle(cfg.gemini, raised)
         IN  /\ steps' = IF h[1] THEN Append(steps, "general_question_answered") ELSE steps
             /\ Return(GeneralOutcome(h))
    /\ log' = Append(log, Stage("general"))
    /\ UNCHANGED <<cfg, question, qUse, isDb, intent, sqlQuery, data, stats,
                   schemaCache, fnIn, fnOut>>

\* Lines 137-142: clear_cache, then get_schema_context refills the cache from
\* the catalog (through sql_executor.execute).
SchemaFetch ==
    /\ pc = "schema"
    /\ \E db \in DbAnswers :
         log' = log \o <<Stage("schema")>> \o execute(CatalogSql, "catalog", db).events
    /\ schemaCache' = <<"formatted">>
    /\ steps' = Append(steps, "schema_retrieved")
    /\ pc' = "refine"
    /\ UNCHANGED <<cfg, question, qUse, isDb, intent, sqlQuery, data, stats,
                   outcome, fnIn, fnOut>>

RefineCase(available, raised, reply) ==
    IF ~available THEN "unavailable"
    ELSE IF raised THEN "raised"
    ELSE IF reply = NoQuestion THEN "no_text"
    ELSE "refined"

\* Lines 144-159
Refine ==
    /\ pc = "refine"
    /\ \E raised \in BOOLEAN, reply \in {RefinedQuestion, NoQuestion} :
         LET r == refine(cfg.gemini, question, raised, reply)
         IN  /\ qUse' = IF r[1] /\ r[2] # NoQuestion THEN r[2] ELSE question
             /\ log' = log \o <<Stage("refine"),
                                Ev("refined", <<RefineCase(cfg.gemini, raised, reply)>>, None)>>
    /\ steps' = Append(steps, "question_refined")
    /\ pc' = "intent"
    /\ UNCHANGED <<cfg, question, isDb, intent, sqlQuery, data, stats, outcome,
                   schemaCache, fnIn, fnOut>>

\* Lines 161-164
DetectIntent ==
    /\ pc = "intent"
    /\ intent' = detect_intent_type(qUse)
    /\ log' = Append(log, Stage("intent"))
    /\ steps' = Append(steps, "intent_detected")
    /\ pc' = "retrieve"
    /\ UNCHANGED <<cfg, question, qUse, isDb, sqlQuery, data, stats, outcome,
                   schemaCache, fnIn, fnOut>>

\* A faulty retrieval step: the exception leaves handle_question.
Retrieve_propagating ==
    /\ pc = "retrieve"
    /\ \E db \in DbAnswers, r \in {"ok", "raise"} :
         /\ log' = log \o <<Stage("retrieve")>> \o execute(CatalogSql, "catalog", db).events
         /\ pc' = IF r = "raise" THEN "raised" ELSE "generate"
    /\ UNCHANGED <<cfg, question, qUse, isDb, intent, sqlQuery, data, stats,
                   steps, outcome, schemaCache, fnIn, fnOut>>

\* Lines 166-171: schema_retriever.retrieve reads the catalog again; it raises
\* when a table's description cannot be read (retriever.py line 65).
Retrieve ==
    /\ pc = "retrieve"
    /\ \E db \in DbAnswers, r \in {"ok", "raise"} :
         /\ log' = log \o <<Stage("retrieve")>> \o execute(CatalogSql, "catalog", db).events
         /\ IF r = "raise"
            THEN Return(ExceptOutcome(question, ExcInternal))
            ELSE pc' = "generate" /\ UNCHANGED outcome
    /\ UNCHANGED <<cfg, question, qUse, isDb, intent, sqlQuery, data, stats,
                   steps, schemaCache, fnIn, fnOut>>


\* Lines 173-211: SQL generation; a failure ends the request.
Generate ==
    /\ pc = "generate"
    /\ \E raised \in BOOLEAN, reply \in LlmSqlReplies :
         LET g == generate(raised, reply)
         IN  /\ log' = log \o <<Stage("generate")>> \o g.events \o <<Done("generate", g.success)>>
             /\ IF ~g.success
                THEN /\ Return(SqlGenerationFailedOutcome(question, g.error))
                     /\ UNCHANGED <<steps, sqlQuery>>
                ELSE /\ sqlQuery' = g.sql
                     /\ steps' = Append(steps, "sql_generated")
                     /\ pc' = "execute"
                     /\ UNCHANGED outcome
    /\ UNCHANGED <<cfg, question, qUse, isDb, intent, data, stats, schemaCache,
                   fnIn, fnOut>>

\* A faulty execution step: the pipeline goes on after a failed execution.
Execute_continuing ==
    /\ pc = "execute"
    /\ \E db \in DbAnswers :
         LET x == execute(sqlQuery, "candidate", db)
         IN  /\ log' = log \o <<Stage("execute")>> \o x.events \o <<Done("execute", x.success)>>
             /\ data' = x.data
             /\ steps' = Append(steps, "sql_executed")
             /\ pc' = "analyze"
    /\ UNCHANGED <<cfg, question, qUse, isDb, intent, sqlQuery, stats, outcome,
                   schemaCache, fnIn, fnOut>>

\* Lines 213-251: execution; a failure ends the request.
Execute ==
    /\ pc = "execute"
    /\ \E db \in DbAnswers :
         LET x == execute(sqlQuery, "candidate", db)
         IN  /\ log' = log \o <<Stage("execute")>> \o x.events \o <<Done("execute", x.success)>>
             /\ IF ~x.success
                THEN /\ Return(SqlExecutionFailedOutcome(question, sqlQuery, x.error))
                     /\ UNCHANGED <<steps, data>>
                ELSE /\ data' = x.data
                     /\ steps' = Append(steps, "sql_executed")
                     /\ pc' = "analyze"
                     /\ UNCHANGED outcome
    /\ UNCHANGED <<cfg, question, qUse, isDb, intent, sqlQuery, stats,
                   schemaCache, fnIn, fnOut>>

\* Lines 253-262
Analyze ==
    /\ pc = "analyze"
    /\ \E fault \in AnalysisFaults : stats' = analyze(data, intent, fault)
    /\ log' = Append(log, Stage("analyze"))
    /\ steps' = Append(steps, "statistical_analysis")
    /\ pc' = "format"
    /\ UNCHANGED <<cfg, question, qUse, isDb, intent, sqlQuery, data, outcome,
                   schemaCache, fnIn, fnOut>>

FormatCase(available, raised) ==
    IF ~available THEN "unavailable" ELSE IF raised THEN "raised" ELSE "answered"

\* Lines 264-416: formatting, the visualization decision, the chart and the
\* success record; an exception on the way ends in the except clause.
Format ==
    /\ pc = "format"
    /\ \E raised \in BOOLEAN, reply \in FormatterReplies, sumOk \in BOOLEAN, chartOk \in BOOLEAN :
         LET f == format_response(cfg.gemini, question, data, raised, reply)
             a == IF f[1] /\ f[2].response # None
                  THEN AssembleFormatted(question, sqlQuery, data, intent, stats,
                                         f[2], chartOk, cfg.showSql)
                  ELSE AssembleFallback(question, sqlQuery, data, intent, stats,
                                        sumOk, chartOk, cfg.showSql)
         IN  /\ log' = log \o <<Stage("format"),
                                Ev("formatted", <<FormatCase(cfg.gemini, raised)>>,
                                   <<f[1], f[2].needs_visualization,
                                     f[2].visualization_type>>)>>
                           \o (IF a.render THEN <<Stage("chart")>> ELSE <<>>)
             /\ steps' = IF a.raised THEN steps ELSE Append(steps, a.step)
             /\ Return(a.out)
    /\ UNCHANGED <<cfg, question, qUse, isDb, intent, sqlQuery, data, stats,
                   schemaCache, fnIn, fnOut>>

Next ==
    \/ Enter
    \/ SensitiveCheck
    \/ Classify
    \/ GeneralAnswer
    \/ SchemaFetch
    \/ Refine
    \/ DetectIntent
    \/ Retrieve
    \/ Generate
    \/ Execute
    \/ Analyze
    \/ Format

Spec == Init /\ [][Next]_vars


\* ================================================================ properties
\* Positions of the trace holding event e
EventsOf(e) == {k \in 1..Len(log) : log[k].ev = e}

\* The database calls made on the request's SQL candidate
CandidateDbCalls == {k \in EventsOf("db_execute") : log[k].res = <<"candidate">>}

\* C1: the database collaborator is invoked on a candidate's text only after
\* the candidate passed the completeness check, then validate, then sanitize
\* (the text sent being sanitize's output), and it is never invoked on the
\* candidate when the completeness check or validate rejected it.
C1_DbOnlyAfterAllChecks ==
    /\ \A k \in CandidateDbCalls :
         \E a \in EventsOf("complete_ok"), b \in EventsOf("validate_ok"),
            c \in EventsOf("sanitize") :
              /\ a < b /\ b < c /\ c < k
              /\ validate_sql_completeness(log[a].arg) = None
              /\ log[b].arg = log[a].arg /\ validate(log[b].arg)[1]
              /\ log[c].arg = log[a].arg /\ log[c].res = sanitize(log[a].arg)
              /\ log[k].arg = log[c].res
    /\ (EventsOf("complete_fail") \cup EventsOf("validate_fail") # {}) => CandidateDbCalls = {}

\* The database was called on a candidate, and the answer has been returned.
C1_Witness == pc = "done" /\ CandidateDbCalls # {}

\* C2: every SQL string containing a block-listed keyword as a standalone
\* token, at any position, is rejected by validate.
C2_BlockedKeywordRejected ==
    (pc = "validate" /\ fnOut # <<>> /\ \E i \in 1..Len(fnIn) : UpperWord(fnIn[i]) \in blocked_keywords)
        => fnOut[1][1] = FALSE

\* Top-level DML tokens of the statement validate examines
TopDml(sql) == {i \in TopTokens(FirstStatement(sql)) : Lex(FirstStatement(sql)[i]) = "DML"}

FailedAt ==
    {k \in EventsOf("result") :
        log[k].res = <<FALSE>> /\ log[k].arg[1] \in {"sensitive", "generate", "execute"}}

\* C4: when a mandatory stage fails (sensitivity block, SQL generation, SQL
\* validation, SQL execution) nothing is invoked after it, and the request has
\* ended with success = false, a message as answer, no data and no chart; a
\* candidate that validate rejected makes the execution stage fail without a
\* database call.
C4_FailureShortCircuits ==
    /\ \A k \in FailedAt :
         /\ k = Len(log)
         /\ pc = "done"
         /\ outcome.success = FALSE
         /\ outcome.answer # None
         /\ outcome.data = NoData
         /\ outcome.chart = FALSE
    /\ \A v \in EventsOf("validate_fail") :
         /\ v + 1 \in FailedAt
         /\ log[v + 1].arg = <<"execute">>
         /\ CandidateDbCalls = {}

\* The database raised on a candidate that validate had accepted: the execution
\* stage failed last.
C4_Witness ==
    /\ FailedAt # {}
    /\ log[Len(log)].arg = <<"execute">>
    /\ EventsOf("validate_fail") = {}
    /\ EventsOf("db_execute") # {}

\* How far the request has come; 12 stands for any position outside the
\* statements of handle_question (an exception on its way to the caller).
PcRank ==
    CASE pc = "start" -> 0 [] pc = "sensitive" -> 1 [] pc = "classify" -> 2
      [] pc = "general" -> 3 [] pc = "schema" -> 3 [] pc = "refine" -> 4
      [] pc = "intent" -> 5 [] pc = "retrieve" -> 6 [] pc = "generate" -> 7
      [] pc = "execute" -> 8 [] pc = "analyze" -> 9 [] pc = "format" -> 10
      [] pc = "done" -> 11 [] OTHER -> 12

\* C5: every request ends by returning one outcome record with a boolean
\* success flag, which is then final; no exception leaves handle_question.
\* The request is always at a statement of handle_question or has returned,
\* every step brings it nearer to the return, and the outcome exists exactly
\* from the return on.
C5_AlwaysReturnsOneOutcome ==
    /\ [](PcRank <= 11)
    /\ [][PcRank' > PcRank]_vars
    /\ []((pc = "done") <=> (outcome # NoOutcome))
    /\ [](pc = "done" => outcome.success \in BOOLEAN)
    /\ [][outcome # NoOutcome => outcome' = outcome]_vars

\* The request ended in the except clause after a collaborator raised.
C5_Witness == pc = "done" /\ outcome.kind = "exception" /\ outcome.success = FALSE

\* C6: the answer and error fields of the outcome never contain technical
\* error text of a collaborator.
C6_NoTechnicalText ==
    pc = "done" => ~HasTechnical(outcome.answer) /\ ~HasTechnical(outcome.error)

\* How the formatting model call went, when the formatting stage has run
FormattingFailed ==
    \E k \in EventsOf("formatted") : log[k].arg[1] \in {"unavailable", "raised"}

RefinementFailed ==
    \E k \in EventsOf("refined") : log[k].arg[1] \in {"unavailable", "raised", "no_text"}

\* C8: when refinement fails or yields no text the original question is the
\* one used from then on, the next stage is intent detection, and no outcome
\* is produced by that failure.
C8_RefinementFailureContinues ==
    RefinementFailed =>
        /\ qUse = question
        /\ log[Len(log)].ev = "refined" => (pc = "intent" /\ outcome = NoOutcome)
        /\ intent # "unset" => intent = detect_intent_type(question)

\* The refinement model raised and a SQL candidate was generated afterwards.
C8_Witness ==
    /\ \E k \in EventsOf("refined") : log[k].arg[1] = "raised"
    /\ EventsOf("complete_ok") # {}

\* Classification failed: unavailable, raised, or an unrecognisable answer
ClassificationFailed ==
    \E k \in EventsOf("classified") : log[k].arg[1] \in {"unavailable", "raised", "unrecognised"}

\* C9: when classification fails the question is treated as database-related,
\* the next stage is schema retrieval, and neither a failed outcome nor a
\* general answer results from it.
C9_ClassificationFailureIsDatabase ==
    ClassificationFailed =>
        /\ isDb = TRUE
        /\ \A k \in EventsOf("stage") : log[k].arg # <<"general">>
        /\ outcome.kind \notin {"general_answered", "general_failed"}
        /\ \A k \in EventsOf("classified") :
               IF k = Len(log) THEN pc = "schema" /\ outcome = NoOutcome
               ELSE log[k + 1] = Stage("schema")

\* An unrecognisable classification answer, and SQL generation was reached.
C9_Witness ==
    /\ \E k \in EventsOf("classified") : log[k].arg[1] = "unrecognised"
    /\ \E k \in EventsOf("stage") : log[k].arg = <<"generate">>

\* FROM immediately followed by LIMIT
FromThenLimit(sql) ==
    \E i \in 1..(Len(sql) - 1) : UpperWord(sql[i]) = "FROM" /\ UpperWord(sql[i + 1]) = "LIMIT"

MissingTableReasons ==
    { <<"Query missing table name after FROM clause">>,
      <<"Query has LIMIT immediately after FROM - missing table name or JOIN clause">> }

\* Nothing downstream of generation was called on candidate c
NeverChecked(c) ==
    \A k \in 1..Len(log) :
        log[k].ev \in {"validate_ok", "validate_fail", "sanitize", "db_execute"} => log[k].arg # c

\* C10 as stated: whenever the completeness check rejects a candidate,
\* generation fails with a missing-table-name reason and neither validate nor
\* the database is invoked on the candidate.
C10_RejectedMeansMissingTable ==
    \A k \in EventsOf("complete_fail") :
        /\ log[k].res \in MissingTableReasons
        /\ outcome.kind = "sql_generation_failed"
        /\ NeverChecked(log[k].arg)

\* C10, amended: whenever the completeness check rejects a candidate,
\* generation fails and neither validate nor the database is invoked on the
\* candidate; every candidate with FROM immediately followed by LIMIT is
\* rejected, with a missing-table-name reason.
C10_RejectedNeverValidated ==
    /\ \A k \in EventsOf("complete_fail") :
         /\ pc = "done" /\ outcome.kind = "sql_generation_failed" /\ ~outcome.success
         /\ log[Len(log)] = Done("generate", FALSE)
         /\ NeverChecked(log[k].arg)
         /\ CandidateDbCalls = {}
         /\ FromThenLimit(log[k].arg) => log[k].res \in MissingTableReasons
    /\ \A k \in EventsOf("complete_ok") : ~FromThenLimit(log[k].arg)

\* SELECT * FROM LIMIT 10 was rejected.
C10_Witness ==
    \E k \in EventsOf("complete_fail") :
        /\ log[k].arg = <<"SELECT", "*", "FROM", "LIMIT", "10">>
        /\ log[k].res = <<"Query missing table name after FROM clause">>

\* Spans of text from a SELECT to a LIMIT <n>, with something in between
SelectLimitSpans(text) ==
    {<<i, j>> \in (1..Len(text)) \X (1..Len(text)) :
        /\ UpperWord(text[i]) = "SELECT"
        /\ j >= i + 2 /\ j + 1 <= Len(text)
        /\ UpperWord(text[j]) = "LIMIT" /\ text[j + 1] = "10"}

\* C11: when the model's output holds a span from SELECT to LIMIT <n>, fenced
\* or not, followed by prose or not, extraction returns such a span of the
\* output; when it holds none, generate fails with the extraction-failure
\* reason.
C11_ExtractionReturnsSpan ==
    (pc = "extract" /\ fnOut # <<>>) =>
        IF SelectLimitSpans(fnIn) # {}
        THEN \E sp \in SelectLimitSpans(fnIn) :
                 fnOut[1] = SubSeq(fnIn, sp[1], sp[2] + 1)
        ELSE /\ ~fnOut[2].success
             /\ fnOut[2].error = <<"Failed to extract SQL from LLM response">>

\* A LIMIT clause: the keyword followed by a number
LimitClauses(sql) ==
    {i \in 1..(Len(sql) - 1) : UpperWord(sql[i]) = "LIMIT" /\ IsDigits(sql[i + 1])}

\* C12: for every SQL string validate accepts and that has no LIMIT clause,
\* sanitize's result has a LIMIT clause, and its value is SQL_MAX_ROWS.
C12_SanitizeAddsLimit ==
    (pc = "sanitize" /\ fnOut # <<>> /\ fnOut[3][1] /\ LimitClauses(fnIn) = {}) =>
        /\ LimitClauses(fnOut[1]) # {}
        /\ \A i \in LimitClauses(fnOut[1]) : fnOut[1][i + 1] = ToString(SQL_MAX_ROWS)

\* The input ends with a numeric LIMIT clause
EndsWithLimit(sql) == Len(sql) >= 2 /\ (Len(sql) - 1) \in LimitClauses(sql)

\* C13: on an input that ends with a numeric LIMIT clause sanitize is
\* idempotent and leaves the text, its LIMIT value included, as it was.
C13_SanitizeIdempotent ==
    (pc = "sanitize" /\ fnOut # <<>> /\ EndsWithLimit(fnIn)) =>
        /\ fnOut[2] = fnOut[1]
        /\ fnOut[1] = fnIn

\* sanitize ran on SELECT ... limit 10 (lower case).
C13_Witness ==
    /\ pc = "sanitize" /\ fnOut # <<>> /\ EndsWithLimit(fnIn)
    /\ Len(fnIn) = 4 /\ fnIn[1] = "SELECT" /\ fnIn[3] = "limit"

\* The request reached response assembly and was answered there
Assembled == pc = "done" /\ outcome.kind \in {"formatted", "fallback"}

\* What the formatter reported: <<success, needs_visualization, visualization_type>>
FormatterReport == log[CHOOSE k \in EventsOf("formatted") : TRUE].res

\* C14 as stated: whenever the formatter's visualization type differs from
\* the analysis' suggestion and the suggestion is not none, the outcome
\* carries the suggestion.
C14_EngineSuggestionWins ==
    (Assembled /\ FormatterReport[3] # stats.visualization_type
               /\ stats.visualization_type # "none")
        => outcome.visualization_type = stats.visualization_type

\* C14, amended: when the formatter reported that a visualization is needed
\* and the analysis was performed (has_analysis) with a suggestion other than
\* none, the outcome carries the analysis' suggestion, whatever type the
\* formatter chose.
C14_EngineSuggestionWinsWhenNeeded ==
    (Assembled /\ FormatterReport[2] /\ stats.has_analysis
               /\ stats.visualization_type # "none")
        => outcome.visualization_type = stats.visualization_type

\* The formatter asked for a plain chart, the analysis suggested a scatter plot.
C14_Witness ==
    /\ Assembled /\ FormatterReport[2] /\ FormatterReport[3] = "chart"
    /\ stats.has_analysis /\ stats.visualization_type = "scatter"
    /\ outcome.visualization_type = "scatter"

\* C15 as stated: a question with a chart-request keyword ends with
\* needs_visualization = true, whatever the stages before reported.
C15_ChartKeywordForces ==
    (pc = "done" /\ "chart" \in question.terms) => outcome.needs_visualization

\* C15, amended: a request that reaches response assembly with a question
\* holding one of the chart keywords of the assembly step ends with
\* needs_visualization = true, also when the formatter reported that none is
\* needed.
C15_ChartKeywordForcesWhenAssembled ==
    (Assembled /\ "chart" \in question.terms) => outcome.needs_visualization

\* The formatter said no visualization is needed; the question asked for a chart.
C15_Witness ==
    /\ Assembled /\ "chart" \in question.terms
    /\ ~FormatterReport[2]
    /\ outcome.needs_visualization /\ outcome.visualization_type = "bar"

\* The fields of a Statistical Finding
IsFinding(f) ==
    /\ DOMAIN f = {"has_analysis", "analysis_type", "interpretation", "visualization_type"}
    /\ f.has_analysis \in BOOLEAN
    /\ f.visualization_type \in {"scatter", "bar", "line", "table", "none"}

\* C16: analyze returns a Statistical Finding for every input, no exception
\* leaves it; when a correlation, comparison, trend or aggregate computation
\* fails, the finding has has_analysis = false, a non-empty interpretation and
\* a visualization type.
C16_AnalyzeNeverRaises ==
    (pc = "analyze_fn" /\ fnOut # <<>>) =>
        /\ IsFinding(fnOut[1])
        /\ (/\ fnIn.fault = "compute"
            /\ fnIn.d.present /\ fnIn.d.rows > 0
            /\ fnIn.intent \in {"correlation", "comparison", "trend", "aggregate"})
           => /\ ~fnOut[1].has_analysis
              /\ fnOut[1].interpretation # None
              /\ fnOut[1].visualization_type \in {"scatter", "bar", "line", "table"}

\* An aggregate computation failed on rows with a numeric column.
C16_Witness ==
    /\ pc = "analyze_fn" /\ fnOut # <<>>
    /\ fnIn.fault = "compute" /\ fnIn.intent = "aggregate"
    /\ fnIn.d.present /\ fnIn.d.rows = 2 /\ fnIn.d.num = 1
    /\ ~fnOut[1].has_analysis /\ Len(fnOut[1].interpretation) = 2

\* C17: whatever the intent type, analyze on an empty result set returns
\* has_analysis = false and visualization_type = none.
C17_EmptyResultSet ==
    (pc = "analyze_fn" /\ fnOut # <<>> /\ (~fnIn.d.present \/ fnIn.d.rows = 0)) =>
        /\ ~fnOut[1].has_analysis
        /\ fnOut[1].visualization_type = "none"

\* analyze ran on an empty list with the intent trend.
C17_Witness ==
    /\ pc = "analyze_fn" /\ fnOut # <<>>
    /\ fnIn.d.present /\ fnIn.d.rows = 0 /\ fnIn.intent = "trend"
    /\ fnOut[1].visualization_type = "none"

\* The order in which the categories are tried
CategoryOrder == <<"correlation", "trend", "comparison", "aggregate", "list">>

\* C18: detect returns the first category of the order correlation, trend,
\* comparison, aggregate, list with a matching pattern, and unknown when no
\* category matches; a question matching two or more correlation patterns and
\* two or more aggregate patterns is a correlation with confidence 0.9.
C18_FirstCategoryWins ==
    (pc = "detect" /\ fnOut # <<>>) =>
        /\ \/ /\ \A c \in Categories : fnIn[c] = 0
              /\ fnOut[1].type = "unknown"
           \/ \E i \in 1..Len(CategoryOrder) :
                 /\ fnIn[CategoryOrder[i]] >= 1
                 /\ \A j \in 1..(i - 1) : fnIn[CategoryOrder[j]] = 0
                 /\ fnOut[1].type = CategoryOrder[i]
        /\ (fnIn["correlation"] >= 2 /\ fnIn["aggregate"] >= 2)
              => (fnOut[1].type = "correlation" /\ fnOut[1].confidence = 9)

\* Two correlation patterns and three aggregate patterns matched.
C18_Witness ==
    /\ pc = "detect" /\ fnOut # <<>>
    /\ fnIn["correlation"] = 2 /\ fnIn["aggregate"] = 3
    /\ fnOut[1].type = "correlation" /\ fnOut[1].confidence = 9

\* The rows of fnIn without nulls
CleanRows == SelectSeq(fnIn, LAMBDA r : r.x # NullCell /\ r.y # NullCell)

\* One of the two columns has the same value in every clean row
ConstantColumn ==
    \/ \A i, j \in 1..Len(CleanRows) : CleanRows[i].x = CleanRows[j].x
    \/ \A i, j \in 1..Len(CleanRows) : CleanRows[i].y = CleanRows[j].y

\* C19: with at least three rows without nulls, the strength is the band of
\* |r| (below 0.2, 0.4, 0.6, 0.8, else very_strong), the direction is positive
\* exactly when r >= 0, an undefined r (a constant column) counts as 0.0, and
\* y = 2x on a non-constant x gives coefficient 1.0, very_strong, positive.
C19_CorrelationBands ==
    (pc = "correlation" /\ fnOut # <<>> /\ Len(CleanRows) >= 3) =>
        LET res == fnOut[1]
            r2n == 25 * res.r.num2
            d   == res.r.den
        IN  /\ res.has_analysis /\ ~res.r.nan
            /\ (res.strength = "very_weak") <=> (r2n < d)
            /\ (res.strength = "weak") <=> (r2n >= d /\ r2n < 4 * d)
            /\ (res.strength = "moderate") <=> (r2n >= 4 * d /\ r2n < 9 * d)
            /\ (res.strength = "strong") <=> (r2n >= 9 * d /\ r2n < 16 * d)
            /\ (res.strength = "very_strong") <=> (r2n >= 16 * d)
            /\ (res.direction = "positive") <=> (res.r.sgn >= 0)
            /\ res.direction \in {"positive", "negative"}
            /\ ConstantColumn =>
                 (res.r = Zero /\ res.correlation_coefficient = 0
                    /\ res.strength = "very_weak" /\ res.direction = "positive")
            /\ (~ConstantColumn /\ \A i \in 1..Len(CleanRows) :
                                       CleanRows[i].y = 2 * CleanRows[i].x)
                 => (res.correlation_coefficient = 1000
                       /\ res.strength = "very_strong" /\ res.direction = "positive")

\* y = 2x on the rows (0,0), (1,2), (1,2), with a row dropped for its null.
C19_Witness ==
    /\ pc = "correlation" /\ fnOut # <<>>
    /\ Len(fnIn) = 4 /\ Len(CleanRows) = 3
    /\ ~ConstantColumn /\ \A i \in 1..3 : CleanRows[i].y = 2 * CleanRows[i].x
    /\ fnOut[1].correlation_coefficient = 1000 /\ fnOut[1].strength = "very_strong"

\* The mean of group g is defined and no group's mean is above (below) it
HasValues(g) == \E i \in 1..Len(fnIn) : fnIn[i].g = g /\ fnIn[i].v # NullCell
GroupSum(g) ==
    SumSeq([i \in 1..Len(fnIn) |->
               IF fnIn[i].g = g /\ fnIn[i].v # NullCell THEN fnIn[i].v ELSE 0])
GroupCount(g) == Cardinality({i \in 1..Len(fnIn) : fnIn[i].g = g /\ fnIn[i].v # NullCell})
RealGroups == {g \in {"A", "B"} : HasValues(g)}
IsMaxMean(g) ==
    g \in RealGroups /\ \A h \in RealGroups :
        GroupSum(h) * GroupCount(g) <= GroupSum(g) * GroupCount(h)
IsMinMean(g) ==
    g \in RealGroups /\ \A h \in RealGroups :
        GroupSum(h) * GroupCount(g) >= GroupSum(g) * GroupCount(h)

\* C20: on rows with a numeric column and a text column the comparison is by
\* group of the text column: highest is a group whose mean of the numeric
\* column is the maximum, lowest a group whose mean is the minimum.
C20_HighestLowestByMean ==
    (pc = "comparison" /\ fnOut # <<>> /\ RealGroups # {}) =>
        /\ fnOut[1].has_analysis
        /\ IsMaxMean(fnOut[1].highest)
        /\ IsMinMean(fnOut[1].lowest)

\* The rows A:10, A:10, B:50
C20_Witness ==
    /\ pc = "comparison" /\ fnOut # <<>>
    /\ fnIn = <<[g |-> "A", v |-> 10], [g |-> "A", v |-> 10], [g |-> "B", v |-> 50]>>
    /\ fnOut[1].highest = "B" /\ fnOut[1].lowest = "A"

\* The non-null values of the series, its two halves and their sums
TrendValues == SelectSeq(fnIn, LAMBDA v : v # NullCell)
FirstHalf == SubSeq(TrendValues, 1, Len(TrendValues) \div 2)
SecondHalf == SubSeq(TrendValues, Len(TrendValues) \div 2 + 1, Len(TrendValues))
SecondMeanExceeds == SumSeq(SecondHalf) * Len(FirstHalf) > SumSeq(FirstHalf) * Len(SecondHalf)

\* C21: with two or more non-null values, split at floor(n/2), the direction
\* is increasing exactly when the mean of the second half strictly exceeds the
\* mean of the first half and decreasing otherwise; a strictly increasing
\* series is increasing, a strictly decreasing one decreasing.
C21_TrendDirection ==
    (pc = "trend" /\ fnOut # <<>> /\ Len(TrendValues) >= 2) =>
        /\ fnOut[1].has_analysis
        /\ fnOut[1].direction = (IF SecondMeanExceeds THEN "increasing" ELSE "decreasing")
        /\ (\A i \in 1..(Len(TrendValues) - 1) : TrendValues[i] < TrendValues[i + 1])
              => fnOut[1].direction = "increasing"
        /\ (\A i \in 1..(Len(TrendValues) - 1) : TrendValues[i] > TrendValues[i + 1])
              => fnOut[1].direction = "decreasing"

\* Equal means of the two halves: 1, 2, 2, 1 is decreasing.
C21_Witness ==
    /\ pc = "trend" /\ fnOut # <<>>
    /\ fnIn = <<1, 2, 2, 1>>
    /\ fnOut[1].has_analysis /\ fnOut[1].direction = "decreasing"

\* C29: the strength reported by a performed trend analysis is never
\* negative, also when the mean of the first half is negative.
C29_TrendStrengthNonNegative ==
    (pc = "trend" /\ fnOut # <<>> /\ fnOut[1].has_analysis) => fnOut[1].strength >= 0

\* The non-null cells of the column
AggregateValues == SelectSeq(fnIn, LAMBDA v : v # NullCell)
HasInfinite == \E i \in 1..Len(AggregateValues) : AggregateValues[i] = InfCell

\* C22: on a column with at least one value, aggregate analysis is performed
\* and reports mean, median, standard deviation, min, max and count of the
\* column (for 1..5: mean 3.0, median 3.0, min 1, max 5, count 5); a
\* statistic that is NaN or infinite is reported as missing.
C22_AggregateStatistics ==
    (pc = "aggregate" /\ fnOut # <<>> /\ AggregateValues # <<>>) =>
        LET res == fnOut[1]
            n   == Len(AggregateValues)
        IN  /\ res.has_analysis
            /\ res.count = n
            /\ HasInfinite => (res.mean = Missing /\ res.max = Missing)
            /\ ~HasInfinite =>
                 /\ \A i \in 1..n : res.min <= 100 * AggregateValues[i]
                                    /\ 100 * AggregateValues[i] <= res.max
                 /\ 2 * n * res.mean - n <= 200 * SumSeq(AggregateValues)
                 /\ 200 * SumSeq(AggregateValues) <= 2 * n * res.mean + n
                 /\ (n = 1) <=> (res.std = Missing)
            /\ fnIn = <<1, 2, 3, 4, 5>> =>
                 (res.mean = 300 /\ res.median = 300 /\ res.min = 100 /\ res.max = 500)

\* C23: under every interleaving each request ends with what it would have
\* obtained alone (the schema context of its own catalog reads), and none
\* fails because of what another request did to the cache.
C23_RequestsIndependent ==
    \A r \in DOMAIN pc :
        (pc[r] = "done") => (fnOut[r] # "AttributeError" /\ fnOut[r] = fnIn[r])

\* A request is failed by another request's clear_cache.
C23_NoRequestFails ==
    \A r \in DOMAIN pc : fnOut[r] # "AttributeError"

\* The names of the stages invoked so far, in order
StagesRun ==
    LET st == SelectSeq(log, LAMBDA e : e.ev = "stage")
    IN  [k \in 1..Len(st) |-> st[k].arg[1]]

IsPrefix(s, t) == Len(s) <= Len(t) /\ s = SubSeq(t, 1, Len(s))

\* The stage named n has reported success before position k of the trace
SucceededBefore(n, k) == \E j \in 1..(k - 1) : log[j] = Done(n, TRUE)

\* C24: the stages run, and the steps trail, follow the fixed order sensitivity
\* check, classification, schema fetch, refinement, intent detection, SQL
\* generation, execution (with validation and sanitize), analysis, response
\* assembly, or end after classification with the general answer; a stage runs
\* only after the mandatory stages before it succeeded; no stage, model call
\* or candidate execution happens twice.
C24_StagesInFixedOrder ==
    /\ \/ \E last \in {"response_formatted", "answer_generated"} :
            IsPrefix(steps, <<"sensitive_check_passed", "question_classified",
                              "schema_retrieved", "question_refined", "intent_detected",
                              "sql_generated", "sql_executed", "statistical_analysis", last>>)
       \/ steps = <<"sensitive_question_detected">>
       \/ steps = <<"sensitive_check_passed", "question_classified",
                    "general_question_answered">>
    /\ \/ IsPrefix(StagesRun, <<"sensitive", "classify", "schema", "refine", "intent",
                                "retrieve", "generate", "execute", "analyze", "format",
                                "chart">>)
       \/ StagesRun = <<"sensitive", "classify", "general">>
    /\ \A k \in EventsOf("stage") :
         /\ log[k].arg[1] # "sensitive" => SucceededBefore("sensitive", k)
         /\ log[k].arg[1] \in {"execute", "analyze", "format", "chart"}
               => SucceededBefore("generate", k)
         /\ log[k].arg[1] \in {"analyze", "format", "chart"}
               => SucceededBefore("execute", k)
    /\ \A e \in {"classified", "refined", "formatted"} : Cardinality(EventsOf(e)) <= 1
    /\ \A e \in {"validate_ok", "validate_fail", "sanitize"} :
         Cardinality({k \in EventsOf(e) : \E j \in 1..(k - 1) : log[j] = Stage("execute")}) <= 1
    /\ Cardinality(CandidateDbCalls) <= 1

\* A request went through every stage and drew a chart.
C24_Witness ==
    /\ pc = "done"
    /\ StagesRun = <<"sensitive", "classify", "schema", "refine", "intent", "retrieve",
                     "generate", "execute", "analyze", "format", "chart">>
    /\ Len(steps) = 9

\* Positions of the keyword FROM in a candidate
KeywordFroms(sql) == {i \in 1..Len(sql) : UpperWord(sql[i]) = "FROM"}

\* The candidate starts with SELECT, holds the keyword FROM, and something
\* other than LIMIT follows that FROM.
IsComplete(sql) ==
    /\ sql # <<>> /\ UpperWord(sql[1]) = "SELECT"
    /\ KeywordFroms(sql) # {}
    /\ LET i == CHOOSE x \in KeywordFroms(sql) : \A y \in KeywordFroms(sql) : x <= y
       IN  i < Len(sql) /\ UpperWord(sql[i + 1]) # "LIMIT"

\* C25: a candidate passes the completeness check only if it starts with
\* SELECT, contains FROM as a keyword, and what follows that FROM is not empty
\* and not LIMIT; for every other candidate generate reports failure.
C25_CompletenessConditions ==
    (pc = "completeness" /\ fnOut # <<>>) =>
        /\ fnOut[1] = None => IsComplete(fnIn)
        /\ ~IsComplete(fnIn) => ~fnOut[2].success

\* The id asked for was issued by a store, was not deleted, and is not past its
\* expiry (the time of the store plus the time to live).
Retrievable(query_id) ==
    /\ query_id \in 1..Len(fnIn.stored)
    /\ query_id \notin fnIn.deleted
    /\ fnIn.now <= fnIn.stored[query_id]

\* C26: get returns an entry only for an id that a store returned, that was
\* not deleted and whose expiry has not passed; otherwise it returns None, and
\* an expired entry it met is no longer in the cache.
C26_GetOnlyLiveEntries ==
    (pc = "cache" /\ fnOut # <<>> /\ fnOut[1] = "get") =>
        /\ fnOut[3] # <<>> => Retrievable(fnOut[2])
        /\ ~Retrievable(fnOut[2]) => (fnOut[3] = <<>> /\ fnOut[2] \notin DOMAIN fnIn.cache)

\* get met an entry past its expiry.
C26_Witness ==
    /\ pc = "cache" /\ fnOut # <<>> /\ fnOut[1] = "get" /\ fnOut[3] = <<>>
    /\ fnOut[2] \in 1..Len(fnIn.stored)
    /\ fnOut[2] \notin fnIn.deleted
    /\ fnIn.now > fnIn.stored[fnOut[2]]

\* C27: with SHOW_SQL_TO_USER false, no outcome of a request, successful or
\* failed, carries the generated SQL in its sql_query field.
C27_SqlHiddenWhenConfigured ==
    (pc = "done" /\ ~cfg.showSql) => outcome.sql_query = None

\* C28: the two columns chosen for the correlation are distinct numeric
\* columns of the result set, whatever the metrics.
C28_DistinctColumns ==
    (pc = "columns" /\ fnOut # <<>>) =>
        /\ fnOut[1] \in 1..fnIn.n /\ fnOut[2] \in 1..fnIn.n
        /\ fnOut[1] # fnOut[2]

\* The band of a coefficient given in thousandths
BandOfThousandths(c) ==
    LET a == IF c < 0 THEN -c ELSE c
    IN  IF a < 200 THEN "very_weak" ELSE IF a < 400 THEN "weak"
        ELSE IF a < 600 THEN "moderate" ELSE IF a < 800 THEN "strong"
        ELSE "very_strong"

\* C30: in every correlation result with an analysis, the strength is the band
\* of the absolute value of the correlation_coefficient reported in the same
\* result, the coefficient rounded to three decimals.
C30_StrengthMatchesReported ==
    (pc = "correlation" /\ fnOut # <<>> /\ fnOut[1].has_analysis) =>
        fnOut[1].strength = BandOfThousandths(fnOut[1].correlation_coefficient)

====
